---- MODULE Spec2Model ----
(***************************************************************************)
(* A model of the edge proxy's core: the upstream process supervisor       *)
(* (internal/upstream/server.go), the bounded memory cache                 *)
(* (internal/proxy/cache/memory_cache.go) and the cache handler            *)
(* (proxycache.CacheHandler with Variant and CacheableResponse).           *)
(*                                                                         *)
(* Each subsystem has its own specification over its own variables:        *)
(*   SpecSup    the supervisor, Start and Stop as interleaved goroutines   *)
(*   SpecMem    the memory cache, Set and Get under its lock               *)
(*   SpecCache  the cache handler, concurrent requests over a backend      *)
(***************************************************************************)
EXTENDS Integers, Sequences, FiniteSets, TLC

(***************************************************************************)
(* Bounds of the model.                                                    *)
(***************************************************************************)
\* exec.Cmd handles (one per Start call that gets as far as exec.Command)
MaxCmds == 2

\* goroutines calling Server.Start and Server.Stop
Starters == {"start1", "start2"}
Stoppers == {"stop1"}

Cmds == 1..MaxCmds

\* the memory cache is built with a capacity and a per-item limit up to these
MaxCapacity == 2
MaxItemLimit == 2
\* the clock of the memory cache runs from 1 to MaxTime
MaxTime == 2

\* CacheKey values given to the memory cache, and the byte slices stored
MemKeys == {"k1", "k2"}
MemValues == {<<>>, <<1>>, <<1, 1>>, <<1, 1, 1>>}

\* goroutines in CacheHandler.ServeHTTP, and the requests they serve in all
Handlers == {"h1", "h2"}
MaxRequests == 3
\* requests that begin while another one is under way
MaxOverlaps == 1
\* entries the backend evicts or lets expire
MaxEvictions == 1
\* h.maxBodySize, the byte ceiling of a captured body
MaxBodySize == 2
\* calls of Write that the downstream handler makes for one response
MaxWrites == 2
\* runes of a generated command string
MaxLen == 4
\* bytes of the largest file X-Sendfile names
MaxFileSize == 2
\* calls the wrapped handler makes on its ResponseWriter for one response
MaxSinkCalls == 4
\* header names in a generated Vary value
MaxVaryNames == 2

VARIABLES
    \* ---- upstream.Server (server.go:25-31) and its environment ----
    cfgValid,    \* s.cfg: the working directory is usable
    mu,          \* s.mu: "free" or the goroutine that holds it
    cmd,         \* s.cmd: 0 (nil) or a handle
    done,        \* s.done: 0 (nil) or the handle whose channel it is
    stopping,    \* s.stopping
    nextCmd,     \* handles allocated so far
    proc,        \* per handle: "new" | "running" | "exited" | "failed"
    exitCode,    \* per handle: the exit code once exited
    closed,      \* per handle: its done channel is closed
    startPc, startCmd, startStopping,   \* Start's position and locals
    stopPc, stopCmd, stopDone,          \* Stop's position and locals
    stopRet,     \* per Stop goroutine: what its last call returned
    stopLog,     \* per Stop goroutine: what the current/last call did, in order
    startRet,    \* per Start goroutine: what its current/last call returns
    sigSent,     \* per handle: the signals delivered to the process
    markedBeforeExit, \* per handle: a Stop captured it before the process exited
    flagAtExit   \* per handle: s.stopping at the moment the process exited

    \* ---- proxycache.MemoryCache (memory_cache.go:28-36) ----
VARIABLES
    capacity,    \* c.capacity
    maxItemSize, \* c.maxItemSize
    size,        \* c.size
    keys,        \* c.keys
    items,       \* c.items: per key an entry, or NoEntry
    now,         \* what c.getCurrentTime() returns
    memLast      \* the last call on the cache: what it was given and what it did

    \* ---- proxycache.CacheHandler (part_003:21-28), its backend, its clients ----
VARIABLES
    backend,     \* h.cache: per stored key the encoded response
    varyIndex,   \* h.varyIndex: per base key the header names
    hPc,         \* per goroutine: where ServeHTTP is
    hReq,        \* per goroutine: r, the request
    hNames,      \* per goroutine: variant.headerNames
    hKey,        \* per goroutine: key
    hRound,      \* per goroutine: 1 in the first fetchFromCache, 2 in the second
    hResp,       \* per goroutine: response, the decoded cache entry
    hCr,         \* per goroutine: cr, the captured response of the origin
    out,         \* per goroutine: what the client of the current/last request got
    stored,      \* per goroutine: the key the backend took its response under
    started,     \* requests begun so far
    overlaps,    \* requests begun so far while another one was under way
    evictions,   \* entries removed by the backend so far
    alone,       \* per goroutine: no other request ran during the current/last one
    prev,        \* per goroutine: the request completed just before this one began
    lastDone,    \* the request completed last, if it ran alone and its entry is intact
    lastHit,     \* the request replayed from the backend last, if its entry is intact
    lastWriter,  \* the goroutine whose h.cache.Set the backend took last
    hTally       \* per goroutine: backend reads and downstream calls of the request

    \* ---- one request that missed: its capture (part_004:22-31, 191-196), ----
    \* ---- the client's ResponseWriter, and a later replay of what was kept ----
VARIABLES
    capPc,          \* where ServeHTTP is with the request
    capReq,         \* r, the request
    crStatusCode,   \* cr.StatusCode
    crHttpHeader,   \* cr.HttpHeader
    headersWritten, \* cr.headersWritten
    buffer,         \* cr.stasher.buffer
    overflowed,     \* cr.stasher.overflowed
    w,              \* the client's ResponseWriter
    written,        \* the bytes the downstream handler has written, in order
    writes,         \* calls of Write so far
    kept,           \* what h.cache.Set was given and the backend took
    tags,           \* the entity tags the client of the replay lists
    replayed        \* what the client of the replay got

    \* ---- Variant.CacheKey (variant.go:27-39) for two requests ----
VARIABLES
    keyReq,      \* the two requests, v.r of each Variant
    keyNames,    \* v.headerNames, the same Vary list for both
    keyOf        \* per request the CacheKey computed for it so far

    \* ---- the command of the upstream process (server.go:196-261) ----
VARIABLES
    command,     \* s.cfg.Command
    extraArgs,   \* s.cfg.Args
    splitRet,    \* what splitCommandLine returned for the command
    normRet      \* what normalizeCommand returned for command and arguments

    \* ---- the environment of the upstream process (server.go:170-194) ----
VARIABLES
    environ,          \* os.Environ(): the parent's environment, "key=value" each
    cfgEnv,           \* s.cfg.Env: the configured overrides
    targetBindSocket, \* s.cfg.TargetBindSocket
    targetPort,       \* s.cfg.TargetPort
    cmdEnv            \* cmd.Env: the strings buildEnv returned, in no order

    \* ---- the reverse proxy (part_002:18-147) ----
VARIABLES
    opts,        \* the Options NewReverseProxy is given
    pageFile,    \* the file at opts.BadGatewayPage, if there is one
    proxy,       \* what NewReverseProxy built: socket path, transport, page content
    errResp      \* what the ErrorHandler wrote to the client on a failure

    \* ---- proxy.SendfileHandler and its sendfileWriter (sendfile.go:15-104) ----
VARIABLES
    sendfileEnabled, \* h.enabled
    sfRequest,       \* r, the request
    sfFile,          \* the file at /tmp/file.txt, if there is one
    sinkKind,        \* which http.ResponseWriter the handler was given
    sink,            \* that ResponseWriter: its header map and what the client got
    headerWritten,   \* w.headerWritten
    sendingFile,     \* w.sendingFile
    sfPc,            \* where SendfileHandler.ServeHTTP is
    sfCalls,         \* calls of the wrapped handler on its ResponseWriter so far
    sfLast,          \* the last such call and what it returned
    sawMarker        \* a header write has found the X-Sendfile header

VARIABLES
    \* ---- Variant.SetResponseHeader and CacheKey on the runes of a Vary value
    \*      (variant.go:17-39, 62-75) ----
    varyValue,       \* the Vary value of the response header each variant is given
    varyReq,         \* the request both variants are built for
    variants         \* per variant: headerNames, and the CacheKey once computed

supVars == <<cfgValid, mu, cmd, done, stopping, nextCmd, proc, exitCode, closed,
             startPc, startCmd, startStopping, stopPc, stopCmd, stopDone,
             stopRet, stopLog, startRet, sigSent, markedBeforeExit, flagAtExit>>

memVars == <<capacity, maxItemSize, size, keys, items, now, memLast>>

cacheVars == <<backend, varyIndex, hPc, hReq, hNames, hKey, hRound, hResp, hCr,
               out, stored, started, overlaps, evictions, alone, prev, lastDone,
               lastHit, lastWriter, hTally>>

captureVars == <<capPc, capReq, crStatusCode, crHttpHeader, headersWritten,
                 buffer, overflowed, w, written, writes, kept, tags, replayed>>

keyVars == <<keyReq, keyNames, keyOf>>

\* the parts of the program that have a specification of their own each
oldVars == <<supVars, memVars, cacheVars, captureVars>>
cmdVars == <<command, extraArgs, splitRet, normRet>>
envVars == <<environ, cfgEnv, targetBindSocket, targetPort, cmdEnv>>
proxyVars == <<opts, pageFile, proxy, errResp>>
sendVars == <<sendfileEnabled, sfRequest, sfFile, sinkKind, sink, headerWritten,
              sendingFile, sfPc, sfCalls, sfLast, sawMarker>>
varyVars == <<varyValue, varyReq, variants>>
restVars == <<keyVars, cmdVars, envVars, proxyVars, sendVars, varyVars>>

vars == <<supVars, memVars, cacheVars, captureVars, restVars>>

\* what a step of one subsystem leaves alone
notSup == <<memVars, cacheVars, captureVars, restVars>>
notMem == <<supVars, cacheVars, captureVars, restVars>>
notCache == <<supVars, memVars, captureVars, restVars>>
notCapture == <<supVars, memVars, cacheVars, restVars>>
notKey == <<oldVars, cmdVars, envVars, proxyVars, sendVars, varyVars>>
notCmd == <<oldVars, keyVars, envVars, proxyVars, sendVars, varyVars>>
notEnv == <<oldVars, keyVars, cmdVars, proxyVars, sendVars, varyVars>>
notProxy == <<oldVars, keyVars, cmdVars, envVars, sendVars, varyVars>>
notSend == <<oldVars, keyVars, cmdVars, envVars, proxyVars, varyVars>>
notVary == <<oldVars, keyVars, cmdVars, envVars, proxyVars, sendVars>>

(***************************************************************************)
(* The command line of the upstream process.  A command is a string, a     *)
(* rune a string of length one.                                            *)
(***************************************************************************)
\* the runes the generated commands are made of: a letter, a space, the two
\* quotes and the backslash
Runes == {"a", " ", "'", "\"", "\\"}

\* every string of at most n runes
RECURSIVE Strings(_)
Strings(n) ==
    IF n = 0 THEN {""}
    ELSE LET shorter == Strings(n - 1)
         IN shorter \cup {s \o r : s \in shorter, r \in Runes}

\* the commands of server_test.go:18-42, 70 and 87
TestCommands ==
    {"/bin/echo",
     "/usr/bin/env bash -c \"echo hello world\"",
     "/bin/echo some\\ value",
     "/bin/echo \"unterminated",
     "/bin/echo trailing\\",
     "/home/ec2-user/.rbenv/bin/rbenv exec bundle exec --keep-file-descriptors puma -C /var/www/oauth2id/shared/puma.rb",
     "  "}

Commands == Strings(MaxLen) \cup TestCommands

\* s.cfg.Args
ExtraArgLists == {<<>>, <<"-p">>, <<"-p", "3000">>}

\* unicode.IsSpace, for the runes of the model
IsSpace(r) == r \in {" ", "\t", "\n", "\r"}

errEmptyCommand == "upstream command is empty"

\* the locals of splitCommandLine, server.go:215-221
SplitLocals(result, current, inSingle, inDouble, escape) ==
    [result |-> result, current |-> current, inSingle |-> inSingle,
     inDouble |-> inDouble, escape |-> escape]

\* splitCommandLine, server.go:224-245: the switch, for one rune
SplitRune(st, r) ==
    IF st.escape
    THEN [st EXCEPT !.current = @ \o r, !.escape = FALSE]
    ELSE IF r = "\\"
    THEN IF st.inSingle THEN [st EXCEPT !.current = @ \o r]
         ELSE [st EXCEPT !.escape = TRUE]
    ELSE IF r = "'" /\ ~st.inDouble
    THEN [st EXCEPT !.inSingle = ~@]
    ELSE IF r = "\"" /\ ~st.inSingle
    THEN [st EXCEPT !.inDouble = ~@]
    ELSE IF IsSpace(r) /\ ~st.inSingle /\ ~st.inDouble
    THEN IF Len(st.current) > 0
         THEN [st EXCEPT !.result = Append(@, st.current), !.current = ""]
         ELSE st
    ELSE [st EXCEPT !.current = @ \o r]

\* splitCommandLine, server.go:223-246: the loop over the runes lo..hi of the
\* input, left to right. The range is walked in two halves, the locals after
\* the first half evaluated before the second is entered, which keeps the
\* evaluation of a long command shallow.
RECURSIVE SplitLoop(_, _, _, _)
SplitLoop(input, lo, hi, st) ==
    IF lo > hi THEN st
    ELSE IF lo = hi THEN SplitRune(st, SubSeq(input, lo, lo))
    ELSE LET mid == (lo + hi) \div 2
             left == SplitLoop(input, lo, mid, st)
         IN IF left.escape \in BOOLEAN
            THEN SplitLoop(input, mid + 1, hi, left)
            ELSE left

\* splitCommandLine, server.go:214-261
splitCommandLine(input) ==
    LET st == SplitLoop(input, 1, Len(input),
                        SplitLocals(<<>>, "", FALSE, FALSE, FALSE)) IN
    IF st.escape
    THEN [parts |-> <<>>, err |-> "unterminated escape sequence in command"]
    ELSE IF st.inSingle \/ st.inDouble
    THEN [parts |-> <<>>, err |-> "unterminated quoted string in command"]
    ELSE [parts |-> IF Len(st.current) > 0 THEN Append(st.result, st.current)
                    ELSE st.result,
          err |-> ""]

\* normalizeCommand with the extra arguments put before the command's own
normalizeCommandArgsFirst(input, args) ==
    LET split == splitCommandLine(input) IN
    IF split.err # "" THEN [base |-> "", args |-> <<>>, err |-> split.err]
    ELSE IF Len(split.parts) = 0
    THEN [base |-> "", args |-> <<>>, err |-> errEmptyCommand]
    ELSE [base |-> split.parts[1],
          args |-> args \o SubSeq(split.parts, 2, Len(split.parts)),
          err |-> ""]

\* normalizeCommand, server.go:196-212
normalizeCommand(input, args) ==
    LET split == splitCommandLine(input) IN
    IF split.err # "" THEN [base |-> "", args |-> <<>>, err |-> split.err]
    ELSE IF Len(split.parts) = 0
    THEN [base |-> "", args |-> <<>>, err |-> errEmptyCommand]
    ELSE [base |-> split.parts[1],
          args |-> SubSeq(split.parts, 2, Len(split.parts)) \o args,
          err |-> ""]

\* nothing returned yet
NoReturn == [err |-> "none"]

CommandInit ==
    /\ command \in Commands
    /\ extraArgs \in ExtraArgLists
    /\ splitRet = NoReturn
    /\ normRet = NoReturn

CommandIdle ==
    /\ command = "/bin/echo"
    /\ extraArgs = <<>>
    /\ splitRet = NoReturn
    /\ normRet = NoReturn

\* a call of splitCommandLine, server.go:214-261
SplitCommandLine ==
    /\ splitRet = NoReturn
    /\ splitRet' = splitCommandLine(command)
    /\ UNCHANGED <<command, extraArgs, normRet>>
    /\ UNCHANGED notCmd

\* a call of normalizeCommand, server.go:196-212
NormalizeCommand ==
    /\ normRet = NoReturn
    /\ normRet' = normalizeCommand(command, extraArgs)
    /\ UNCHANGED <<command, extraArgs, splitRet>>
    /\ UNCHANGED notCmd

CommandNext ==
    \/ SplitCommandLine
    \/ NormalizeCommand

(***************************************************************************)
(* The environment of the upstream process.  A map is a function from its  *)
(* keys to their values.                                                   *)
(***************************************************************************)
\* strings.Index(kv, "="): the place of the first "=", 0 when there is none
\* (Go counts from 0 and answers -1)
IndexOfEquals(kv) ==
    LET places == {i \in 1..Len(kv) : SubSeq(kv, i, i) = "="}
    IN IF places = {} THEN 0
       ELSE CHOOSE i \in places : \A j \in places : i <= j

\* strconv.Itoa for a number that is not negative
RECURSIVE Itoa(_)
Itoa(n) ==
    IF n < 10 THEN SubSeq("0123456789", n + 1, n + 1)
    ELSE Itoa(n \div 10) \o SubSeq("0123456789", (n % 10) + 1, (n % 10) + 1)

\* merged[key] = value
MapSet(merged, key, value) ==
    [k \in DOMAIN merged \cup {key} |-> IF k = key THEN value ELSE merged[k]]

\* buildEnv, server.go:173-177: the parent's variables, a later entry of the
\* same key replacing an earlier one, an entry without "=" left out
RECURSIVE ParentVariables(_)
ParentVariables(entries) ==
    IF entries = <<>> THEN <<>>
    ELSE LET merged == ParentVariables(SubSeq(entries, 1, Len(entries) - 1))
             kv == entries[Len(entries)]
             idx == IndexOfEquals(kv)
         IN IF idx # 0
            THEN MapSet(merged, SubSeq(kv, 1, idx - 1),
                        SubSeq(kv, idx + 1, Len(kv)))
            ELSE merged

\* buildEnv, server.go:184-186: the second map laid over the first
Overlay(merged, overrides) ==
    [key \in DOMAIN merged \cup DOMAIN overrides |->
        IF key \in DOMAIN overrides THEN overrides[key] ELSE merged[key]]

\* buildEnv, server.go:188-191: "key=value" for every key, in no order
EnvStrings(merged) == {key \o "=" \o merged[key] : key \in DOMAIN merged}

\* buildEnv that exports PORT also when a UNIX socket is configured
buildEnvPortWithSocket(entries, overrides, socket, port) ==
    LET parent == ParentVariables(entries)
        withPort == IF port > 0 THEN MapSet(parent, "PORT", Itoa(port))
                    ELSE parent
    IN EnvStrings(Overlay(withPort, overrides))

\* Server.buildEnv, server.go:170-194
buildEnv(entries, overrides, socket, port) ==
    LET parent == ParentVariables(entries)
        withPort == IF socket = "" /\ port > 0
                    THEN MapSet(parent, "PORT", Itoa(port))
                    ELSE parent
    IN EnvStrings(Overlay(withPort, overrides))

\* what os.Environ() may return: nothing, variables with and without PORT, a
\* value that holds "=", a key given twice, an entry without "="
Environs ==
    {<<>>,
     <<"PATH=/bin">>,
     <<"PATH=/bin", "PORT=8080">>,
     <<"OPTS=a=b", "PATH=/bin">>,
     <<"PATH=/bin", "PATH=/usr/bin">>,
     <<"PATH=/bin", "stray">>}

\* s.cfg.Env: no override, one of a new variable, of PORT, of a parent's variable
EnvOverrides ==
    {<<>>,
     [key \in {"RAILS_ENV"} |-> "production"],
     [key \in {"PORT"} |-> "9000"],
     [key \in {"PATH", "RAILS_ENV"} |-> IF key = "PATH" THEN "/opt/bin"
                                        ELSE "production"]}

\* s.cfg.TargetBindSocket
BindSockets == {"", "/tmp/puma.sock"}

\* s.cfg.TargetPort: negative, unset, the port of the README
TargetPorts == {0 - 1, 0, 3000}

NoEnv == {"none"}

EnvInit ==
    /\ environ \in Environs
    /\ cfgEnv \in EnvOverrides
    /\ targetBindSocket \in BindSockets
    /\ targetPort \in TargetPorts
    /\ cmdEnv = NoEnv

EnvIdle ==
    /\ environ = <<>>
    /\ cfgEnv = <<>>
    /\ targetBindSocket = ""
    /\ targetPort = 0
    /\ cmdEnv = NoEnv

\* Start, server.go:60: cmd.Env = s.buildEnv()
BuildEnv ==
    /\ cmdEnv = NoEnv
    /\ cmdEnv' = buildEnv(environ, cfgEnv, targetBindSocket, targetPort)
    /\ UNCHANGED <<environ, cfgEnv, targetBindSocket, targetPort>>
    /\ UNCHANGED notEnv

EnvNext == BuildEnv

(***************************************************************************)
(* The reverse proxy: its transport and its error handler.                 *)
(***************************************************************************)
\* strings.TrimSpace
RECURSIVE stringsTrimSpace(_)
stringsTrimSpace(s) ==
    IF Len(s) > 0 /\ IsSpace(SubSeq(s, 1, 1))
    THEN stringsTrimSpace(SubSeq(s, 2, Len(s)))
    ELSE IF Len(s) > 0 /\ IsSpace(SubSeq(s, Len(s), Len(s)))
    THEN stringsTrimSpace(SubSeq(s, 1, Len(s) - 1))
    ELSE s

\* strings.HasPrefix
HasPrefix(s, prefix) ==
    Len(s) >= Len(prefix) /\ SubSeq(s, 1, Len(prefix)) = prefix

\* strings.TrimPrefix
TrimPrefix(s, prefix) ==
    IF HasPrefix(s, prefix) THEN SubSeq(s, Len(prefix) + 1, Len(s)) ELSE s

\* normalizeUnixSocketPath, part_002:134-147
normalizeUnixSocketPath(in) ==
    IF in = "" THEN ""
    ELSE LET s == stringsTrimSpace(in) IN
         IF HasPrefix(s, "unix://")
         THEN LET path == TrimPrefix(s, "unix://")
              IN IF ~HasPrefix(path, "/") THEN "/" \o path ELSE path
         ELSE s

\* an http.Transport or http2.Transport, by the fields the proxy sets: the
\* network and address its dialer is given, "" for those of the request
Transport(type, allowHTTP, network, address) ==
    [type |-> type, DisableCompression |-> TRUE, AllowHTTP |-> allowHTTP,
     network |-> network, address |-> address]

\* createProxyTransport that looks at the h2c toggle before the socket path
createProxyTransportH2cFirst(o) ==
    LET socketPath == normalizeUnixSocketPath(o.UnixSocketPath) IN
    IF o.H2cEnabled /\ o.TargetURL # "nil" /\ o.TargetURL = "http"
    THEN Transport("http2.Transport", TRUE, "", "")
    ELSE IF socketPath # ""
    THEN Transport("http.Transport", FALSE, "unix", socketPath)
    ELSE Transport("http.Transport", FALSE, "", "")

\* createProxyTransport, part_002:95-125. o.TargetURL is the scheme of the
\* target, "nil" for no URL.
createProxyTransport(o) ==
    LET socketPath == normalizeUnixSocketPath(o.UnixSocketPath) IN
    IF socketPath # ""
    THEN Transport("http.Transport", FALSE, "unix", socketPath)
    ELSE IF o.H2cEnabled /\ o.TargetURL # "nil" /\ o.TargetURL = "http"
    THEN Transport("http2.Transport", TRUE, "", "")
    ELSE Transport("http.Transport", FALSE, "", "")

\* a byte slice that is nil, or one that holds these bytes
NilBytes == [nil |-> TRUE, bytes |-> <<>>]
Bytes(bytes) == [nil |-> FALSE, bytes |-> bytes]

\* proxyErrorHandler, part_002:48-52: os.ReadFile, nil on any error
ReadPage(path, file) ==
    IF path = "" \/ ~file.exists THEN NilBytes ELSE Bytes(file.bytes)

\* isRequestEntityTooLarge, part_002:90-93: errors.As finds an
\* *http.MaxBytesError in the chain of the error
isRequestEntityTooLarge(err) ==
    \E i \in 1..Len(err) : err[i] = "*http.MaxBytesError"

\* what a handler wrote to a fresh ResponseWriter
Written(status, header, body) == [status |-> status, header |-> header, body |-> body]

\* the error handler that looks for the page before the kind of the error
proxyErrorHandlerPageFirst(content, err) ==
    IF ~content.nil
    THEN Written(502, [n \in {"Content-Type"} |-> "text/html"], content.bytes)
    ELSE IF isRequestEntityTooLarge(err)
    THEN Written(413, <<>>, <<>>)
    ELSE Written(502, <<>>, <<>>)

\* the handler proxyErrorHandler returns, part_002:54-70
proxyErrorHandler(content, err) ==
    IF isRequestEntityTooLarge(err)
    THEN Written(413, <<>>, <<>>)
    ELSE IF ~content.nil
    THEN Written(502, [n \in {"Content-Type"} |-> "text/html"], content.bytes)
    ELSE Written(502, <<>>, <<>>)

\* opts.UnixSocketPath: unset, the forms of part_002:129-131, a path that is
\* not absolute, a path with blanks around it, the bare prefix, only blanks
UnixSocketPaths ==
    {"", "/tmp/puma.sock", "unix:///tmp/puma.sock", "unix://tmp/puma.sock",
     "tmp/puma.sock", " /tmp/puma.sock ", "unix://", "  "}

\* the Options of part_002:18-30 that the transport and the error handler read
ProxyOptions ==
    [TargetURL : {"nil", "http", "https"},
     BadGatewayPage : {"", "/502.html"},
     UnixSocketPath : UnixSocketPaths,
     H2cEnabled : BOOLEAN]

\* the file at /502.html: missing, empty, a page
PageFiles ==
    {[exists |-> FALSE, bytes |-> <<>>],
     [exists |-> TRUE, bytes |-> <<>>],
     [exists |-> TRUE, bytes |-> <<5, 0, 2>>]}

\* the errors the transport hands to the handler, as their chains: a dial
\* failure, a body over the limit, the same wrapped
ProxyErrors ==
    {<<"*net.OpError">>,
     <<"*http.MaxBytesError">>,
     <<"*fmt.wrapError", "*http.MaxBytesError">>}

NoProxy == [built |-> FALSE]
NoWritten == [err |-> <<>>, w |-> Written(0, <<>>, <<>>)]

ProxyInit ==
    /\ opts \in ProxyOptions
    /\ pageFile \in PageFiles
    /\ proxy = NoProxy
    /\ errResp = NoWritten

ProxyIdle ==
    /\ opts = [TargetURL |-> "nil", BadGatewayPage |-> "",
               UnixSocketPath |-> "", H2cEnabled |-> FALSE]
    /\ pageFile = [exists |-> FALSE, bytes |-> <<>>]
    /\ proxy = NoProxy
    /\ errResp = NoWritten

\* NewReverseProxy, part_002:34-45
NewReverseProxy ==
    /\ proxy = NoProxy
    /\ proxy' = [built |-> TRUE,
                 socketPath |-> normalizeUnixSocketPath(opts.UnixSocketPath),
                 Transport |-> createProxyTransport(opts),
                 content |-> ReadPage(opts.BadGatewayPage, pageFile)]
    /\ UNCHANGED <<opts, pageFile, errResp>>
    /\ UNCHANGED notProxy

\* the ReverseProxy calls its ErrorHandler for a request that failed
ErrorHandler(err) ==
    /\ proxy # NoProxy
    /\ errResp = NoWritten
    /\ errResp' = [err |-> err, w |-> proxyErrorHandler(proxy.content, err)]
    /\ UNCHANGED <<opts, pageFile, proxy>>
    /\ UNCHANGED notProxy

ProxyNext ==
    \/ NewReverseProxy
    \/ \E err \in ProxyErrors : ErrorHandler(err)

(***************************************************************************)
(* The supervisor.                                                         *)
(***************************************************************************)
\* The process was waited for: cmd.Wait has returned in the Start that owns it.
Reaped(h) ==
    /\ proc[h] = "exited"
    /\ ~\E t \in Starters : startCmd[t] = h /\ startPc[t] = "wait"

\* cmd.Process != nil: set by a successful cmd.Start, never reset.
HasProcess(h) == proc[h] \in {"running", "exited"}

startLocals == <<startPc, startCmd, startStopping>>
stopLocals == <<stopPc, stopCmd, stopDone, stopRet, stopLog>>
server == <<cfgValid, cmd, done, stopping>>
os == <<proc, exitCode, sigSent, flagAtExit>>

\* s.cfg.Command in the supervisor's runs: the simple command and the two
\* malformed ones of server_test.go:18-42, an unterminated single quote and
\* the blank command of server_test.go:87
SupCommands ==
    {"/bin/echo",
     "/bin/echo \"unterminated",
     "/bin/echo 'unterminated",
     "/bin/echo trailing\\",
     "  "}

\* s.cfg.Args in the supervisor's runs
SupArgs == <<>>

\* normalizeCommand(s.cfg.Command, s.cfg.Args), server.go:40, for each command
\* of the supervisor's runs
SupNormalized == [c \in SupCommands |-> normalizeCommand(c, SupArgs)]

\* Start, server.go:40-47 and 50-56: an empty or malformed command, or a
\* working directory that cannot be used, returns an error before anything is
\* registered.
StartPrepareFails(t) ==
    /\ startPc[t] = "idle"
    /\ SupNormalized[command].err # "" \/ ~cfgValid
    /\ startRet' = [startRet EXCEPT ![t] = "error"]
    /\ UNCHANGED <<mu, server, nextCmd, os, closed, startPc, startCmd,
                   startStopping, stopLocals, markedBeforeExit>>
    /\ UNCHANGED notSup

\* A Start that goes on to exec.Command whatever normalizeCommand returned
StartPrepareUnchecked(t) ==
    /\ startPc[t] = "idle"
    /\ cfgValid
    /\ nextCmd < MaxCmds
    /\ nextCmd' = nextCmd + 1
    /\ startCmd' = [startCmd EXCEPT ![t] = nextCmd + 1]
    /\ startRet' = [startRet EXCEPT ![t] = "none"]
    /\ startPc' = [startPc EXCEPT ![t] = "register"]
    /\ UNCHANGED <<mu, server, os, closed, startStopping, stopLocals,
                   markedBeforeExit>>
    /\ UNCHANGED notSup

\* Start, server.go:44-65: the command is in order; exec.Command and
\* make(chan struct{})
StartPrepare(t) ==
    /\ startPc[t] = "idle"
    /\ SupNormalized[command].err = ""
    /\ cfgValid
    /\ nextCmd < MaxCmds
    /\ nextCmd' = nextCmd + 1
    /\ startCmd' = [startCmd EXCEPT ![t] = nextCmd + 1]
    /\ startRet' = [startRet EXCEPT ![t] = "none"]
    /\ startPc' = [startPc EXCEPT ![t] = "register"]
    /\ UNCHANGED <<mu, server, os, closed, startStopping, stopLocals,
                   markedBeforeExit>>
    /\ UNCHANGED notSup

\* Start, server.go:67-70: s.mu.Lock(); s.cmd = cmd; s.done = done; s.stopping = false
StartRegister(t) ==
    /\ startPc[t] = "register"
    /\ mu = "free"
    /\ mu' = t
    /\ cmd' = startCmd[t]
    /\ done' = startCmd[t]
    /\ stopping' = FALSE
    /\ UNCHANGED cfgValid
    /\ startPc' = [startPc EXCEPT ![t] = "registerUnlock"]
    /\ UNCHANGED <<nextCmd, os, closed, startCmd, startStopping, stopLocals,
                   startRet, markedBeforeExit>>
    /\ UNCHANGED notSup

\* A Start that leaves the registration's critical section with s.mu still held
\* (the unlock deferred to the return).
StartRegisterUnlockDeferred(t) ==
    /\ startPc[t] = "registerUnlock"
    /\ startPc' = [startPc EXCEPT ![t] = "launch"]
    /\ UNCHANGED <<mu, server, nextCmd, os, closed, startCmd, startStopping,
                   stopLocals, startRet, markedBeforeExit>>
    /\ UNCHANGED notSup

\* Start, server.go:71: s.mu.Unlock()
StartRegisterUnlock(t) ==
    /\ startPc[t] = "registerUnlock"
    /\ mu' = "free"
    /\ startPc' = [startPc EXCEPT ![t] = "launch"]
    /\ UNCHANGED <<server, nextCmd, os, closed, startCmd, startStopping,
                   stopLocals, startRet, markedBeforeExit>>
    /\ UNCHANGED notSup

\* Start, server.go:81: cmd.Start() succeeds, cmd.Process is set
StartLaunch(t) ==
    /\ startPc[t] = "launch"
    /\ proc' = [proc EXCEPT ![startCmd[t]] = "running"]
    /\ startPc' = [startPc EXCEPT ![t] = "wait"]
    /\ UNCHANGED <<mu, server, nextCmd, exitCode, sigSent, flagAtExit, closed,
                   startCmd, startStopping, stopLocals, startRet,
                   markedBeforeExit>>
    /\ UNCHANGED notSup

\* Start, server.go:81-83: cmd.Start() fails, the error is returned (through the defer)
StartLaunchFails(t) ==
    /\ startPc[t] = "launch"
    /\ proc' = [proc EXCEPT ![startCmd[t]] = "failed"]
    /\ startRet' = [startRet EXCEPT ![t] = "error"]
    /\ startPc' = [startPc EXCEPT ![t] = "deferClose"]
    /\ UNCHANGED <<mu, server, nextCmd, exitCode, sigSent, flagAtExit, closed,
                   startCmd, startStopping, stopLocals, markedBeforeExit>>
    /\ UNCHANGED notSup

\* Start, server.go:91 and 113-117: cmd.Wait() returns once the process has exited;
\* exit code 0 returns nil, an *exec.ExitError goes on to read s.stopping
StartWaitReturns(t) ==
    /\ startPc[t] = "wait"
    /\ proc[startCmd[t]] = "exited"
    /\ IF exitCode[startCmd[t]] = 0
         THEN /\ startRet' = [startRet EXCEPT ![t] = "nil"]
              /\ startPc' = [startPc EXCEPT ![t] = "deferClose"]
         ELSE /\ startPc' = [startPc EXCEPT ![t] = "readStopping"]
              /\ UNCHANGED startRet
    /\ UNCHANGED <<mu, server, nextCmd, os, closed, startCmd, startStopping,
                   stopLocals, markedBeforeExit>>
    /\ UNCHANGED notSup

\* Start, server.go:96-97: s.mu.Lock(); stopping := s.stopping
StartReadStopping(t) ==
    /\ startPc[t] = "readStopping"
    /\ mu = "free"
    /\ mu' = t
    /\ startStopping' = [startStopping EXCEPT ![t] = stopping]
    /\ startPc' = [startPc EXCEPT ![t] = "readUnlock"]
    /\ UNCHANGED <<server, nextCmd, os, closed, startCmd, stopLocals,
                   startRet, markedBeforeExit>>
    /\ UNCHANGED notSup

\* Start, server.go:98-107: s.mu.Unlock(); nil if stopping, else the exit error
StartReadUnlock(t) ==
    /\ startPc[t] = "readUnlock"
    /\ mu' = "free"
    /\ startRet' = [startRet EXCEPT ![t] =
                          IF startStopping[t] THEN "nil" ELSE "error"]
    /\ startStopping' = [startStopping EXCEPT ![t] = FALSE]
    /\ startPc' = [startPc EXCEPT ![t] = "deferClose"]
    /\ UNCHANGED <<server, nextCmd, os, closed, startCmd, stopLocals,
                   markedBeforeExit>>
    /\ UNCHANGED notSup

\* Start's defer, server.go:74: close(done)
StartDeferClose(t) ==
    /\ startPc[t] = "deferClose"
    /\ closed' = [closed EXCEPT ![startCmd[t]] = TRUE]
    /\ startPc' = [startPc EXCEPT ![t] = "clear"]
    /\ UNCHANGED <<mu, server, nextCmd, os, startCmd, startStopping,
                   stopLocals, startRet, markedBeforeExit>>
    /\ UNCHANGED notSup

\* A defer that clears s.cmd and leaves s.done as it is
StartClearKeepingDone(t) ==
    /\ startPc[t] = "clear"
    /\ mu = "free"
    /\ mu' = t
    /\ cmd' = 0
    /\ startPc' = [startPc EXCEPT ![t] = "clearUnlock"]
    /\ UNCHANGED <<cfgValid, done, stopping, nextCmd, os, closed, startCmd,
                   startStopping, stopLocals, startRet, markedBeforeExit>>
    /\ UNCHANGED notSup

\* Start's defer, server.go:75-77: s.mu.Lock(); s.cmd = nil; s.done = nil
StartClear(t) ==
    /\ startPc[t] = "clear"
    /\ mu = "free"
    /\ mu' = t
    /\ cmd' = 0
    /\ done' = 0
    /\ startPc' = [startPc EXCEPT ![t] = "clearUnlock"]
    /\ UNCHANGED <<cfgValid, stopping, nextCmd, os, closed, startCmd, startStopping,
                   stopLocals, startRet, markedBeforeExit>>
    /\ UNCHANGED notSup

\* Start's defer, server.go:78: s.mu.Unlock(); Start returns.  The history kept
\* about the handle (exit code, signals, marks) covers the call only and is
\* dropped here; proc and closed stay, a Stop may still hold the handle.
StartClearUnlock(t) ==
    /\ startPc[t] = "clearUnlock"
    /\ mu' = "free"
    /\ startPc' = [startPc EXCEPT ![t] = "idle"]
    /\ exitCode' = [exitCode EXCEPT ![startCmd[t]] = 0]
    /\ sigSent' = [sigSent EXCEPT ![startCmd[t]] = {}]
    /\ flagAtExit' = [flagAtExit EXCEPT ![startCmd[t]] = FALSE]
    /\ markedBeforeExit' = [markedBeforeExit EXCEPT ![startCmd[t]] = FALSE]
    /\ UNCHANGED <<server, nextCmd, proc, closed, startCmd, startStopping,
                   stopLocals, startRet>>
    /\ UNCHANGED notSup

\* The supervised process exits, by itself or because of a signal, with any code.
ProcExit(h, code) ==
    /\ proc[h] = "running"
    /\ proc' = [proc EXCEPT ![h] = "exited"]
    /\ exitCode' = [exitCode EXCEPT ![h] = code]
    /\ flagAtExit' = [flagAtExit EXCEPT ![h] = stopping]
    /\ UNCHANGED <<mu, server, nextCmd, sigSent, closed, startLocals,
                   stopLocals, startRet, markedBeforeExit>>
    /\ UNCHANGED notSup

\* Stop is called: a new call starts with an empty log.
StopCall(t) ==
    /\ stopPc[t] = "idle"
    /\ stopPc' = [stopPc EXCEPT ![t] = "lock"]
    /\ stopLog' = [stopLog EXCEPT ![t] = <<>>]
    /\ stopRet' = [stopRet EXCEPT ![t] = "none"]
    /\ stopCmd' = [stopCmd EXCEPT ![t] = 0]
    /\ stopDone' = [stopDone EXCEPT ![t] = 0]
    /\ UNCHANGED <<mu, server, nextCmd, os, closed, startLocals, startRet,
                   markedBeforeExit>>
    /\ UNCHANGED notSup

\* Stop, server.go:122-125: s.mu.Lock(); cmd := s.cmd; done := s.done; s.stopping = true
StopLock(t) ==
    /\ stopPc[t] = "lock"
    /\ mu = "free"
    /\ mu' = t
    /\ stopCmd' = [stopCmd EXCEPT ![t] = cmd]
    /\ stopDone' = [stopDone EXCEPT ![t] = done]
    /\ stopping' = TRUE
    /\ UNCHANGED cfgValid
    /\ markedBeforeExit' =
          IF cmd # 0 /\ proc[cmd] # "exited"
            THEN [markedBeforeExit EXCEPT ![cmd] = TRUE]
            ELSE markedBeforeExit
    /\ stopPc' = [stopPc EXCEPT ![t] = "unlock"]
    /\ UNCHANGED <<cmd, done, nextCmd, os, closed, startLocals, stopRet,
                   stopLog, startRet>>
    /\ UNCHANGED notSup

\* Stop, server.go:126: s.mu.Unlock()
StopUnlock(t) ==
    /\ stopPc[t] = "unlock"
    /\ mu' = "free"
    /\ stopPc' = [stopPc EXCEPT ![t] = "check"]
    /\ UNCHANGED <<server, nextCmd, os, closed, startLocals, stopCmd, stopDone,
                   stopRet, stopLog, startRet, markedBeforeExit>>
    /\ UNCHANGED notSup

\* Stop, server.go:128: cmd == nil || cmd.Process == nil
StopNothingToStop(t) ==
    IF stopCmd[t] = 0 THEN TRUE ELSE ~HasProcess(stopCmd[t])

\* A Stop that answers a call with nothing to stop by an error.
StopReturnIdleAsError(t) ==
    /\ stopPc[t] = "check"
    /\ StopNothingToStop(t)
    /\ stopRet' = [stopRet EXCEPT ![t] = "error"]
    /\ stopPc' = [stopPc EXCEPT ![t] = "idle"]
    /\ UNCHANGED <<mu, server, nextCmd, os, closed, startLocals, stopCmd,
                   stopDone, stopLog, startRet, markedBeforeExit>>
    /\ UNCHANGED notSup

\* Stop, server.go:128-130: nothing to stop, return nil
StopReturnIdle(t) ==
    /\ stopPc[t] = "check"
    /\ StopNothingToStop(t)
    /\ stopRet' = [stopRet EXCEPT ![t] = "nil"]
    /\ stopPc' = [stopPc EXCEPT ![t] = "idle"]
    /\ UNCHANGED <<mu, server, nextCmd, os, closed, startLocals, stopCmd,
                   stopDone, stopLog, startRet, markedBeforeExit>>
    /\ UNCHANGED notSup

\* Stop, server.go:128: there is a process, go on to signal it
StopProceed(t) ==
    /\ stopPc[t] = "check"
    /\ ~StopNothingToStop(t)
    /\ stopPc' = [stopPc EXCEPT ![t] = "signal"]
    /\ UNCHANGED <<mu, server, nextCmd, os, closed, startLocals, stopCmd,
                   stopDone, stopRet, stopLog, startRet, markedBeforeExit>>
    /\ UNCHANGED notSup

\* os.Process.Signal / Kill on handle h: os.ErrProcessDone once the process was
\* waited for, else the signal is delivered ("ok"), or the kernel refuses it.
SendOutcomes(h) == IF Reaped(h) THEN {"processDone"} ELSE {"ok", "error"}

\* Stop, server.go:132-144: send the configured stop signal; an error other than
\* os.ErrProcessDone is returned at once
StopSignal(t) ==
    /\ stopPc[t] = "signal"
    /\ \E r \in SendOutcomes(stopCmd[t]) :
         /\ stopLog' = [stopLog EXCEPT ![t] =
                           IF r = "error" THEN @ \o <<"signal", "sendError">>
                                          ELSE Append(@, "signal")]
         /\ sigSent' = IF r = "ok"
                         THEN [sigSent EXCEPT ![stopCmd[t]] = @ \cup {"stop"}]
                         ELSE sigSent
         /\ IF r = "error"
              THEN /\ stopRet' = [stopRet EXCEPT ![t] = "error"]
                   /\ stopPc' = [stopPc EXCEPT ![t] = "idle"]
              ELSE /\ stopPc' = [stopPc EXCEPT ![t] = "select"]
                   /\ UNCHANGED stopRet
    /\ UNCHANGED <<mu, server, nextCmd, proc, exitCode, flagAtExit, closed,
                   startLocals, stopCmd, stopDone, startRet,
                   markedBeforeExit>>
    /\ UNCHANGED notSup

\* Stop, server.go:146-148: case <-done (done is never nil here: s.cmd and
\* s.done are set and cleared together under s.mu)
StopDoneReceived(t) ==
    /\ stopPc[t] = "select"
    /\ stopDone[t] # 0
    /\ closed[stopDone[t]]
    /\ stopLog' = [stopLog EXCEPT ![t] = Append(@, "done")]
    /\ stopRet' = [stopRet EXCEPT ![t] = "nil"]
    /\ stopPc' = [stopPc EXCEPT ![t] = "idle"]
    /\ UNCHANGED <<mu, server, nextCmd, os, closed, startLocals, stopCmd,
                   stopDone, startRet, markedBeforeExit>>
    /\ UNCHANGED notSup

\* A Stop whose timeout branch returns without killing or waiting.
StopTimeoutGivesUp(t) ==
    /\ stopPc[t] = "select"
    /\ stopDone[t] # 0
    /\ ~closed[stopDone[t]]
    /\ stopLog' = [stopLog EXCEPT ![t] = Append(@, "timeout")]
    /\ stopRet' = [stopRet EXCEPT ![t] = "nil"]
    /\ stopPc' = [stopPc EXCEPT ![t] = "idle"]
    /\ UNCHANGED <<mu, server, nextCmd, os, closed, startLocals, stopCmd,
                   stopDone, startRet, markedBeforeExit>>
    /\ UNCHANGED notSup

\* Stop, server.go:149-152: case <-time.After(defaultStopTimeout): the grace
\* period ran out while done was still open
StopTimeout(t) ==
    /\ stopPc[t] = "select"
    /\ stopDone[t] # 0
    /\ ~closed[stopDone[t]]
    /\ stopLog' = [stopLog EXCEPT ![t] = Append(@, "timeout")]
    /\ stopPc' = [stopPc EXCEPT ![t] = "kill"]
    /\ UNCHANGED <<mu, server, nextCmd, os, closed, startLocals, stopCmd,
                   stopDone, stopRet, startRet, markedBeforeExit>>
    /\ UNCHANGED notSup

\* Stop, server.go:153-155: cmd.Process.Kill(); an error other than
\* os.ErrProcessDone is returned at once
StopKill(t) ==
    /\ stopPc[t] = "kill"
    /\ \E r \in SendOutcomes(stopCmd[t]) :
         /\ stopLog' = [stopLog EXCEPT ![t] =
                           IF r = "error" THEN @ \o <<"kill", "sendError">>
                                          ELSE Append(@, "kill")]
         /\ sigSent' = IF r = "ok"
                         THEN [sigSent EXCEPT ![stopCmd[t]] = @ \cup {"kill"}]
                         ELSE sigSent
         /\ IF r = "error"
              THEN /\ stopRet' = [stopRet EXCEPT ![t] = "error"]
                   /\ stopPc' = [stopPc EXCEPT ![t] = "idle"]
              ELSE /\ stopPc' = [stopPc EXCEPT ![t] = "waitDone"]
                   /\ UNCHANGED stopRet
    /\ UNCHANGED <<mu, server, nextCmd, proc, exitCode, flagAtExit, closed,
                   startLocals, stopCmd, stopDone, startRet,
                   markedBeforeExit>>
    /\ UNCHANGED notSup

\* Stop, server.go:156-158 and 162: <-done, then return nil
StopWaitDone(t) ==
    /\ stopPc[t] = "waitDone"
    /\ closed[stopDone[t]]
    /\ stopLog' = [stopLog EXCEPT ![t] = Append(@, "done")]
    /\ stopRet' = [stopRet EXCEPT ![t] = "nil"]
    /\ stopPc' = [stopPc EXCEPT ![t] = "idle"]
    /\ UNCHANGED <<mu, server, nextCmd, os, closed, startLocals, stopCmd,
                   stopDone, startRet, markedBeforeExit>>
    /\ UNCHANGED notSup

\* Server.Start, server.go:39-118: the steps after the call was made
StartBody(t) ==
    \/ StartRegister(t)
    \/ StartRegisterUnlock(t)
    \/ StartLaunch(t)
    \/ StartLaunchFails(t)
    \/ StartWaitReturns(t)
    \/ StartReadStopping(t)
    \/ StartReadUnlock(t)
    \/ StartDeferClose(t)
    \/ StartClear(t)
    \/ StartClearUnlock(t)

\* Server.Start, server.go:39-118
Start(t) ==
    \/ StartPrepareFails(t)
    \/ StartPrepare(t)
    \/ StartBody(t)

\* Server.Stop, server.go:121-163: the steps after the call was made
StopBody(t) ==
    \/ StopLock(t)
    \/ StopUnlock(t)
    \/ StopReturnIdle(t)
    \/ StopProceed(t)
    \/ StopSignal(t)
    \/ StopDoneReceived(t)
    \/ StopTimeout(t)
    \/ StopKill(t)
    \/ StopWaitDone(t)

\* Server.Stop, server.go:121-163
Stop(t) ==
    \/ StopCall(t)
    \/ StopBody(t)

\* the supervised process, as the operating system runs it
Environment == \E h \in Cmds, code \in {0, 1} : ProcExit(h, code)

SupNext ==
    \/ \E t \in Starters : Start(t)
    \/ \E t \in Stoppers : Stop(t)
    \/ Environment

\* NewServer, server.go:34-36: nothing registered, nothing running
SupFresh ==
    /\ mu = "free"
    /\ cmd = 0
    /\ done = 0
    /\ stopping = FALSE
    /\ nextCmd = 0
    /\ proc = [h \in Cmds |-> "new"]
    /\ exitCode = [h \in Cmds |-> 0]
    /\ closed = [h \in Cmds |-> FALSE]
    /\ startPc = [t \in Starters |-> "idle"]
    /\ startCmd = [t \in Starters |-> 0]
    /\ startStopping = [t \in Starters |-> FALSE]
    /\ stopPc = [t \in Stoppers |-> "idle"]
    /\ stopCmd = [t \in Stoppers |-> 0]
    /\ stopDone = [t \in Stoppers |-> 0]
    /\ stopRet = [t \in Stoppers |-> "none"]
    /\ stopLog = [t \in Stoppers |-> <<>>]
    /\ startRet = [t \in Starters |-> "none"]
    /\ sigSent = [h \in Cmds |-> {}]
    /\ markedBeforeExit = [h \in Cmds |-> FALSE]
    /\ flagAtExit = [h \in Cmds |-> FALSE]

\* NewServer with any configuration
SupInit ==
    /\ cfgValid \in BOOLEAN
    /\ command \in SupCommands
    /\ extraArgs = SupArgs
    /\ splitRet = NoReturn
    /\ normRet = NoReturn
    /\ SupFresh

(***************************************************************************)
(* The memory cache.                                                       *)
(***************************************************************************)
\* evictOldestItem draws this many keys (memory_cache.go:112)
SampleSize == 5

\* MemoryCacheEntry, memory_cache.go:15-19
MemoryCacheEntry(accessed, expires, value) ==
    [lastAccessedAt |-> accessed, expiresAt |-> expires, value |-> value]

\* NewMemoryCache, memory_cache.go:39-48
NewMemoryCache(c, m) ==
    /\ capacity = c
    /\ maxItemSize = m
    /\ size = 0
    /\ keys = <<>>
    /\ items = <<>>
    /\ now = 1
    /\ memLast = [op |-> "new", key |-> "", value |-> <<>>, ok |-> FALSE,
                  evicted |-> <<>>]

MemInit == \E c \in 1..MaxCapacity, m \in 1..MaxItemLimit : NewMemoryCache(c, m)

\* the cache as evictOldestItem and the loop in Set see and change it
CacheState(sz, ks, its, ev) ==
    [size |-> sz, keys |-> ks, items |-> its, evicted |-> ev]

\* evictOldestItem, memory_cache.go:112-128: the index the sampling loop ends
\* with, given the indexes rand.Intn returns. oldest = 0 is the zero time.
\* evictOldestItem ending with the first key of the list whatever it drew
SampleScanFirstKey(st, draws, i, oldest, oldestIndex, t) == 1

RECURSIVE SampleScan(_, _, _, _, _, _)
SampleScan(st, draws, i, oldest, oldestIndex, t) ==
    IF i > SampleSize THEN oldestIndex
    ELSE LET index == draws[i]
             entry == st.items[st.keys[index]]
         IN IF entry.expiresAt < t THEN index
            ELSE IF entry.lastAccessedAt < oldest \/ oldest = 0
                 THEN SampleScan(st, draws, i + 1, entry.lastAccessedAt, index, t)
                 ELSE SampleScan(st, draws, i + 1, oldest, oldestIndex, t)

\* the indexes evictOldestItem can end with, over everything rand.Intn can return
OldestIndexes(st, t) ==
    {SampleScan(st, draws, 1, 0, 0, t) :
        draws \in [1..SampleSize -> 1..Len(st.keys)]}

\* an eviction that cuts the key list and the size but leaves the entry in the map
RemoveAtKeepingEntry(st, index) ==
    LET n == Len(st.keys)
        key == st.keys[index]
        moved == [st.keys EXCEPT ![index] = st.keys[n]]
    IN CacheState(st.size - Len(st.items[key].value),
                  SubSeq(moved, 1, n - 1),
                  st.items,
                  Append(st.evicted, key))

\* evictOldestItem, memory_cache.go:130-134: the last key takes the place of
\* the evicted one, the list is cut by one, the size and the map follow
RemoveAt(st, index) ==
    LET n == Len(st.keys)
        key == st.keys[index]
        moved == [st.keys EXCEPT ![index] = st.keys[n]]
    IN CacheState(st.size - Len(st.items[key].value),
                  SubSeq(moved, 1, n - 1),
                  [k \in DOMAIN st.items \ {key} |-> st.items[k]],
                  Append(st.evicted, key))

\* evictOldestItem, memory_cache.go:100-135
evictOldestItem(st, t) ==
    IF Len(st.keys) = 0 THEN {st}
    ELSE {RemoveAt(st, index) : index \in OldestIndexes(st, t)}

\* the loop of Set, memory_cache.go:62-65, without the eviction
EvictLoopSkipped(st, limit, t) == {st}

\* the loop of Set, memory_cache.go:62-65: every state it can end in
RECURSIVE EvictLoop(_, _, _)
EvictLoop(st, limit, t) ==
    IF st.size > limit /\ Len(st.keys) > 0
    THEN UNION {EvictLoop(next, limit, t) : next \in evictOldestItem(st, t)}
    ELSE {st}

\* Set, memory_cache.go:56-59
ItemTooLarge(itemSize) == itemSize > maxItemSize \/ itemSize > capacity

\* Set, memory_cache.go:51-82
MemSet(key, value, expiresAt) ==
    /\ UNCHANGED notMem
    /\ LET itemSize == Len(value) IN
       IF ItemTooLarge(itemSize)
       THEN /\ memLast' = [op |-> "set", key |-> key, value |-> value,
                           ok |-> FALSE, evicted |-> <<>>]
            /\ UNCHANGED <<capacity, maxItemSize, size, keys, items, now>>
       ELSE \E st \in EvictLoop(CacheState(size, keys, items, <<>>),
                                capacity - itemSize, now) :
               LET existing == key \in DOMAIN st.items
                   freed == IF existing THEN Len(st.items[key].value) ELSE 0
               IN /\ keys' = IF existing THEN st.keys ELSE Append(st.keys, key)
                  /\ items' = [k \in DOMAIN st.items \cup {key} |->
                                  IF k = key
                                  THEN MemoryCacheEntry(now, expiresAt, value)
                                  ELSE st.items[k]]
                  /\ size' = st.size - freed + itemSize
                  /\ memLast' = [op |-> "set", key |-> key, value |-> value,
                                 ok |-> TRUE, evicted |-> st.evicted]
                  /\ UNCHANGED <<capacity, maxItemSize, now>>

\* Get that already misses an entry at the instant it expires
MemMissAtExpiry(key) ==
    IF key \in DOMAIN items THEN items[key].expiresAt <= now ELSE TRUE

\* Get, memory_cache.go:91-94: no entry, or one that expired before now
MemMiss(key) ==
    IF key \in DOMAIN items THEN items[key].expiresAt < now ELSE TRUE

\* Get, memory_cache.go:85-98
MemGet(key) ==
    /\ UNCHANGED notMem
    /\ IF MemMiss(key)
       THEN /\ memLast' = [op |-> "get", key |-> key, value |-> <<>>,
                           ok |-> FALSE, evicted |-> <<>>]
            /\ UNCHANGED <<capacity, maxItemSize, size, keys, items, now>>
       ELSE /\ items' = [items EXCEPT ![key].lastAccessedAt = now]
            /\ memLast' = [op |-> "get", key |-> key, value |-> items[key].value,
                           ok |-> TRUE, evicted |-> <<>>]
            /\ UNCHANGED <<capacity, maxItemSize, size, keys, now>>

\* getCurrentTime (time.Now) moves on between calls
MemTick ==
    /\ now < MaxTime
    /\ now' = now + 1
    /\ UNCHANGED <<capacity, maxItemSize, size, keys, items, memLast>>
    /\ UNCHANGED notMem

MemNext ==
    \/ \E key \in MemKeys, value \in MemValues, expiresAt \in 1..MaxTime :
          MemSet(key, value, expiresAt)
    \/ \E key \in MemKeys : MemGet(key)
    \/ MemTick

(***************************************************************************)
(* The memory cache on the ristretto backend (memory_cache.go:136-290).    *)
(* items is what the client holds, size the cost it counts; keys is not    *)
(* used.                                                                   *)
(***************************************************************************)
\* Set, memory_cache.go:186-195
RistrettoItemTooLarge(itemSize) ==
    itemSize > maxItemSize \/ (capacity > 0 /\ itemSize > capacity)

\* the entries under these keys, taken out of the client
Without(gone) == [k \in DOMAIN items \ gone |-> items[k]]

\* the cost of the entries the client holds
RECURSIVE Cost(_)
Cost(held) ==
    IF DOMAIN held = {} THEN 0
    ELSE LET k == CHOOSE x \in DOMAIN held : TRUE
         IN Len(held[k].value) + Cost([x \in DOMAIN held \ {k} |-> held[x]])

\* Set, memory_cache.go:181-226: the item goes to SetWithTTL unless it is too
\* large or its time to live is not positive. SetWithTTL may refuse it; when
\* it takes the item, the client drops entries of its choice so that the cost
\* stays within MaxCost (memory_cache.go:163-165).
RistrettoSet(key, value, expiresAt) ==
    /\ UNCHANGED notMem
    /\ UNCHANGED <<capacity, maxItemSize, keys, now>>
    /\ LET itemSize == Len(value)
           ttl == expiresAt - now
           dropped == /\ memLast' = [op |-> "set", key |-> key, value |-> value,
                                     ok |-> FALSE, evicted |-> <<>>]
                      /\ UNCHANGED <<size, items>>
       IN IF RistrettoItemTooLarge(itemSize) THEN dropped
          ELSE IF ttl <= 0 THEN dropped
          ELSE \E ok \in BOOLEAN :
                  IF ~ok THEN dropped
                  ELSE \E gone \in SUBSET (DOMAIN items \ {key}) :
                          LET held == [k \in DOMAIN Without(gone) \cup {key} |->
                                          IF k = key
                                          THEN MemoryCacheEntry(0, expiresAt, value)
                                          ELSE items[k]]
                          IN /\ capacity > 0 => Cost(held) <= capacity
                             /\ items' = held
                             /\ size' = Cost(held)
                             /\ memLast' = [op |-> "set", key |-> key,
                                            value |-> value, ok |-> TRUE,
                                            evicted |-> <<>>]

\* Get, memory_cache.go:229-250: the client knows no entry whose time to live
\* has run out
RistrettoGet(key) ==
    /\ UNCHANGED notMem
    /\ UNCHANGED <<capacity, maxItemSize, size, keys, items, now>>
    /\ memLast' = IF MemMiss(key)
                    THEN [op |-> "get", key |-> key, value |-> <<>>,
                          ok |-> FALSE, evicted |-> <<>>]
                    ELSE [op |-> "get", key |-> key, value |-> items[key].value,
                          ok |-> TRUE, evicted |-> <<>>]

RistrettoNext ==
    \/ \E key \in MemKeys, value \in MemValues, expiresAt \in 1..MaxTime :
          RistrettoSet(key, value, expiresAt)
    \/ \E key \in MemKeys : RistrettoGet(key)
    \/ MemTick

(***************************************************************************)
(* The cache handler: Variant, CacheableResponse, CacheHandler.            *)
(*                                                                         *)
(* A header (http.Header) is a function from the names it holds to their   *)
(* values.  A CacheKey is the byte string fed to the FNV hash: the hash is *)
(* taken as collision-free.  A body is a sequence of bytes.                *)
(***************************************************************************)
\* http.Header.Get: "" when the header is absent
Get(header, name) == IF name \in DOMAIN header THEN header[name] ELSE ""

\* http.Header.Del
Del(header, name) == [n \in DOMAIN header \ {name} |-> header[n]]

\* http.Header.Set
Set(header, name, value) ==
    [n \in DOMAIN header \cup {name} |-> IF n = name THEN value ELSE header[n]]

\* a header that holds the given values, the empty ones left out
HeaderWith(values) == [n \in {m \in DOMAIN values : values[m] # ""} |-> values[n]]

\* the requests of the model: one resource, asked for with different headers
Request(method, acceptEncoding, ifNoneMatch, range) ==
    [Method |-> method, Path |-> "/resource", Query |-> "", Host |-> "example.com",
     Header |-> HeaderWith([n \in {"Accept-Encoding", "If-None-Match", "Range"} |->
                    CASE n = "Accept-Encoding" -> acceptEncoding
                      [] n = "If-None-Match" -> ifNoneMatch
                      [] OTHER -> range])]

Requests ==
    { Request("GET", "gzip", "", ""),
      Request("GET", "br", "", ""),
      Request("GET", "gzip", "v1", ""),
      Request("GET", "gzip", "", "bytes=0-1") }

NoRequest == [Method |-> "", Path |-> "", Query |-> "", Host |-> "", Header |-> <<>>]

\* what a handler hands to its ResponseWriter
Response(status, header, body) ==
    [StatusCode |-> status, HttpHeader |-> header, Body |-> body]

NoResponse == Response(0, <<>>, <<>>)

ResponseHeader(cacheControl, vary, etag, setCookie) ==
    HeaderWith([n \in {"Cache-Control", "Vary", "Etag", "Set-Cookie"} |->
        CASE n = "Cache-Control" -> cacheControl
          [] n = "Vary" -> vary
          [] n = "Etag" -> etag
          [] OTHER -> setCookie])

\* h.next, the downstream handler: what it may answer to a request. The first
\* answer is the one of cache_handler_test.go:73-79, with an ETag; the second
\* one also depends on Accept-Encoding but does not say so in a Vary header;
\* the last one has a body of one byte more than the ceiling.
Origin(r) ==
    { Response(200, ResponseHeader("public, max-age=60", "Accept-Encoding", "v1", ""),
               IF Get(r.Header, "Accept-Encoding") = "gzip" THEN <<1>> ELSE <<2>>),
      Response(200, ResponseHeader("public, max-age=60", "", "", "sid=1"),
               IF Get(r.Header, "Accept-Encoding") = "gzip" THEN <<3>> ELSE <<2>>),
      Response(200, ResponseHeader("private", "", "", ""), <<3>>),
      Response(200, ResponseHeader("public, max-age=60", "", "", ""),
               [i \in 1..(MaxBodySize + 1) |-> i]) }

\* strings.Split(list, ","), for the header values of the model
SplitComma(list) ==
    CASE list = "accept-encoding, Accept-Encoding" ->
             <<"accept-encoding", " Accept-Encoding">>
      [] list = "v0, v1" -> <<"v0", " v1">>
      [] list = "v0, v2" -> <<"v0", " v2">>
      [] OTHER -> <<list>>

\* strings.TrimSpace
TrimSpace(str) ==
    CASE str = " Accept-Encoding" -> "Accept-Encoding"
      [] str = " v1" -> "v1"
      [] str = " v2" -> "v2"
      [] OTHER -> str

\* http.CanonicalHeaderKey
CanonicalHeaderKey(name) ==
    CASE name = "accept-encoding" -> "Accept-Encoding"
      [] OTHER -> name

\* the byte order of the header names, as slices.Sort compares them
NameRank(name) ==
    CASE name = "" -> 0
      [] name = "*" -> 1
      [] name = "Accept-Encoding" -> 2
      [] OTHER -> 3

\* slices.Sort, as an insertion into the sorted prefix
RECURSIVE SortNames(_)
SortNames(names) ==
    IF Len(names) <= 1 THEN names
    ELSE LET rest == SortNames(Tail(names))
             first == Head(names)
             before == SelectSeq(rest, LAMBDA n : NameRank(n) < NameRank(first))
             after == SelectSeq(rest, LAMBDA n : NameRank(n) >= NameRank(first))
         IN before \o <<first>> \o after

\* Variant.parseVaryHeader, variant.go:62-75
parseVaryHeader(responseHeader) ==
    LET list == Get(responseHeader, "Vary") IN
    IF list = "" THEN <<>>
    ELSE LET names == SplitComma(list)
         IN SortNames([i \in 1..Len(names) |->
                          CanonicalHeaderKey(TrimSpace(names[i]))])

\* url.Values.Encode: the query with its keys sorted
QueryEncode(query) ==
    CASE query = "b=2&a=1" -> "a=1&b=2"
      [] OTHER -> query

\* Variant.CacheKey with no header names, variant.go:28-32
BaseKey(r) == r.Method \o r.Path \o QueryEncode(r.Query) \o r.Host

\* Variant.CacheKey, variant.go:34-36
RECURSIVE HeaderPairs(_, _)
HeaderPairs(r, names) ==
    IF names = <<>> THEN ""
    ELSE (Head(names) \o "=" \o Get(r.Header, Head(names)))
            \o HeaderPairs(r, Tail(names))

\* a CacheKey that leaves the header names out
CacheKeyWithoutNames(r, names) == BaseKey(r)

\* Variant.CacheKey, variant.go:27-39
CacheKey(r, names) == BaseKey(r) \o HeaderPairs(r, names)

\* Variant.Matches, variant.go:41-49
Matches(r, names, responseHeader) ==
    \A i \in 1..Len(names) :
        Get(responseHeader, names[i]) = Get(r.Header, names[i])

\* Variant.VariantHeader, variant.go:52-58
VariantHeader(r, names) ==
    [n \in {names[i] : i \in 1..Len(names)} |-> Get(r.Header, n)]

\* Variant.ApplyHeaderNames: the resolver takes over the given name list
ApplyHeaderNames(names) == [i \in 1..Len(names) |-> names[i]]

\* Variant.HeaderNames: the name list the resolver holds
HeaderNames(names) == [i \in 1..Len(names) |-> names[i]]

\* stashingWriter.Write and Overflowed, part_004:206-225, for a body written
\* in one piece into an empty buffer
Overflowed(body) == 0 + Len(body) > MaxBodySize

\* The Cache-Control values of the model. Each is given as the sequence of
\* its words (the runs of letters, digits and _ between two \b of a regular
\* expression) and of the characters between them; the header value is their
\* concatenation.
CacheControlLexed ==
    { <<"public", ",", " ", "max", "-", "age", "=", "60">>,
      <<"private">>,
      <<"private", ",", " ", "max", "-", "age", "=", "60">>,
      <<"public">>,
      <<"max", "-", "age", "=", "60">>,
      <<"public", ",", " ", "max", "-", "age", "=", "0">>,
      <<"no", "-", "cache">>,
      <<"public", ",", " ", "no", "-", "cache", ",", " ",
        "max", "-", "age", "=", "60">>,
      <<"public", ",", " ", "s", "-", "max", "-", "age", "=", "10">>,
      <<"public", ",", " ", "s", "-", "max", "-", "age", "=", "10", ",", " ",
        "max", "-", "age", "=", "0">>,
      <<"public", ",", " ", "s", "-", "max", "-", "age", "=", "0", ",", " ",
        "max", "-", "age", "=", "60">>,
      <<"public", ",", " ", "max", "-", "age", "=", "60", ",", " ",
        "s", "-", "max", "-", "age", "=", "10">> }

RECURSIVE Concat(_)
Concat(lex) == IF lex = <<>> THEN "" ELSE Head(lex) \o Concat(Tail(lex))

CacheControlValues == {Concat(lex) : lex \in CacheControlLexed}

LexemesOf ==
    [cc \in CacheControlValues |->
        CHOOSE lex \in CacheControlLexed : Concat(lex) = cc]

\* the words and characters of a header value; an absent header has none
Lexemes(cc) == IF cc \in CacheControlValues THEN LexemesOf[cc] ELSE <<>>

\* strconv.Atoi (part_004:130) on the runs of digits of the model
Atoi == [digits \in {"0", "10", "60"} |->
            CASE digits = "0" -> 0 [] digits = "10" -> 10 [] OTHER -> 60]

\* the words and characters of pattern stand in lex from position i on; a
\* pattern that begins and ends with a word then matches between two \b
RunAt(lex, i, pattern) ==
    /\ i + Len(pattern) - 1 <= Len(lex)
    /\ \A j \in 1..Len(pattern) : lex[i + j - 1] = pattern[j]

\* Regexp.MatchString for `\bpattern\b`
MatchString(lex, pattern) == \E i \in 1..Len(lex) : RunAt(lex, i, pattern)

\* Regexp.FindStringSubmatch for `\bpattern(\d+)\b`: the leftmost match and
\* its group, or nothing
FindStringSubmatch(lex, pattern) ==
    LET at == {i \in 1..Len(lex) :
                  /\ RunAt(lex, i, pattern)
                  /\ i + Len(pattern) <= Len(lex)
                  /\ lex[i + Len(pattern)] \in DOMAIN Atoi}
        first == CHOOSE i \in at : \A k \in at : i <= k
    IN IF at = {} THEN <<>>
       ELSE <<Concat(pattern) \o lex[first + Len(pattern)],
              lex[first + Len(pattern)]>>

\* publicExp and noCacheExp, part_004:15-16 and 118
CacheControlPublic(cc) == MatchString(Lexemes(cc), <<"public">>)
CacheControlNoCache(cc) == MatchString(Lexemes(cc), <<"no", "-", "cache">>)

\* an age taken from max-age even when s-max-age is there
CacheControlAgeMaxAgeFirst(cc) ==
    LET matches == FindStringSubmatch(Lexemes(cc), <<"max", "-", "age", "=">>)
    IN IF Len(matches) # 2 THEN 0 ELSE Atoi[matches[2]]

\* sMaxAgeExp and maxAgeExp, part_004:17-18 and 122-130: the age found, 0 when
\* there is none
CacheControlAge(cc) ==
    LET sMaxAge == FindStringSubmatch(Lexemes(cc),
                                      <<"s", "-", "max", "-", "age", "=">>)
        matches == IF Len(sMaxAge) # 2
                     THEN FindStringSubmatch(Lexemes(cc),
                                             <<"max", "-", "age", "=">>)
                     ELSE sMaxAge
    IN IF Len(matches) # 2 THEN 0 ELSE Atoi[matches[2]]

\* strings.Contains(vary, "*")
ContainsStar(vary) == vary = "*"

\* CacheableResponse.CacheStatus, part_004:103-136, on the fields it reads:
\* cacheable, and for how many seconds from now
CacheStatusOf(hasOverflowed, statusCode, header) ==
    LET cc == Get(header, "Cache-Control") IN
    IF hasOverflowed THEN [cacheable |-> FALSE, maxAge |-> 0]
    ELSE IF statusCode < 200 \/ statusCode > 399 \/ statusCode = 304
    THEN [cacheable |-> FALSE, maxAge |-> 0]
    ELSE IF ContainsStar(Get(header, "Vary"))
    THEN [cacheable |-> FALSE, maxAge |-> 0]
    ELSE IF ~CacheControlPublic(cc) \/ CacheControlNoCache(cc)
    THEN [cacheable |-> FALSE, maxAge |-> 0]
    ELSE IF CacheControlAge(cc) <= 0 THEN [cacheable |-> FALSE, maxAge |-> 0]
    ELSE [cacheable |-> TRUE, maxAge |-> CacheControlAge(cc)]

\* CacheStatus of a response that was written in one piece
CacheStatus(c) == CacheStatusOf(Overflowed(c.Body), c.StatusCode, c.HttpHeader)

\* gob.Encoder.Encode on a CacheableResponse: the exported fields that are
\* transmitted, each with its value. A field with the zero value of its type
\* (a status code of 0, a body without bytes, a nil map) is left out; the
\* HttpHeader of a capture is never nil (part_004:36 and 180-188).
GobEncode(c) ==
    LET transmitted == {"HttpHeader"}
                          \cup (IF c.StatusCode # 0 THEN {"StatusCode"} ELSE {})
                          \cup (IF Len(c.Body) > 0 THEN {"Body"} ELSE {})
                          \cup (IF c.VariantHeader # <<>>
                                  THEN {"VariantHeader"} ELSE {})
    IN [field \in transmitted |-> c[field]]

\* gob.Decoder.Decode into a fresh CacheableResponse: a field that was not
\* transmitted keeps its zero value
GobDecode(fields) ==
    [StatusCode |-> IF "StatusCode" \in DOMAIN fields THEN fields.StatusCode ELSE 0,
     HttpHeader |-> IF "HttpHeader" \in DOMAIN fields THEN fields.HttpHeader ELSE <<>>,
     Body |-> IF "Body" \in DOMAIN fields THEN fields.Body ELSE <<>>,
     VariantHeader |-> IF "VariantHeader" \in DOMAIN fields
                         THEN fields.VariantHeader ELSE <<>>]

\* CacheableResponse.ToBuffer, part_004:54-73: the stored form of a captured
\* response together with its variant header
ToBuffer(c, variantHeader) ==
    [gob |-> GobEncode([StatusCode |-> c.StatusCode,
                        HttpHeader |-> IF CacheStatus(c).cacheable
                                         THEN Del(c.HttpHeader, "Set-Cookie")
                                         ELSE c.HttpHeader,
                        Body |-> IF Overflowed(c.Body) THEN <<>> ELSE c.Body,
                        VariantHeader |-> variantHeader])]

\* CacheableResponseFromBuffer, part_004:45-51
CacheableResponseFromBuffer(b) == GobDecode(b.gob)

NoCached == [StatusCode |-> 0, HttpHeader |-> <<>>, Body |-> <<>>,
             VariantHeader |-> <<>>]

\* a comparison of the entity tags without strings.TrimSpace
wasNotModifiedUntrimmed(c, r) ==
    LET responseEtag == Get(c.HttpHeader, "Etag")
        ifNoneMatch == SplitComma(Get(r.Header, "If-None-Match"))
    IN IF responseEtag = "" THEN FALSE
       ELSE \E i \in 1..Len(ifNoneMatch) : ifNoneMatch[i] = responseEtag

\* CacheableResponse.wasNotModified, part_004:150-164
wasNotModified(c, r) ==
    LET responseEtag == Get(c.HttpHeader, "Etag")
        ifNoneMatch == SplitComma(Get(r.Header, "If-None-Match"))
    IN IF responseEtag = "" THEN FALSE
       ELSE \E i \in 1..Len(ifNoneMatch) : TrimSpace(ifNoneMatch[i]) = responseEtag

\* what reaches the client: status line, headers, body, and how often the
\* downstream handler ran for it
Sent(status, header, body, origin) ==
    [status |-> status, header |-> header, body |-> body, origin |-> origin]

NoOut == Sent(0, <<>>, <<>>, 0)

XCache(o) == Get(o.header, "X-Cache")

\* CacheableResponse.copyHeaders, part_004:166-178
copyHeaders(c, wasHit) ==
    Set(c.HttpHeader, "X-Cache", IF wasHit THEN "hit" ELSE "miss")

\* a replay that leaves the stored body out
WriteCachedResponseWithoutBody(c, r) ==
    Sent(c.StatusCode, copyHeaders(c, TRUE), <<>>, 0)

\* a replay that is marked as a miss
WriteCachedResponseAsMiss(c, r) ==
    Sent(c.StatusCode, copyHeaders(c, FALSE), c.Body, 0)

\* CacheableResponse.WriteCachedResponse, part_004:139-146
WriteCachedResponse(c, r) ==
    IF wasNotModified(c, r)
    THEN Sent(304, copyHeaders(c, TRUE), <<>>, 0)
    ELSE Sent(c.StatusCode, copyHeaders(c, TRUE), c.Body, 0)

\* a rule that lets a request with Upgrade: websocket be a caching candidate
shouldCacheRequestUnlessConnectionUpgrade(r) ==
    LET allowedMethod == r.Method = "GET" \/ r.Method = "HEAD"
        isUpgrade == Get(r.Header, "Connection") = "Upgrade"
        isRange == Get(r.Header, "Range") # ""
    IN allowedMethod /\ ~isUpgrade /\ ~isRange

\* CacheHandler.shouldCacheRequest, part_003:147-153
shouldCacheRequest(r) ==
    LET allowedMethod == r.Method = "GET" \/ r.Method = "HEAD"
        isUpgrade == \/ Get(r.Header, "Connection") = "Upgrade"
                     \/ Get(r.Header, "Upgrade") = "websocket"
        isRange == Get(r.Header, "Range") # ""
    IN allowedMethod /\ ~isUpgrade /\ ~isRange

\* CacheHandler.loadVariantHeaders, part_003:136-145
loadVariantHeaders(baseKey) ==
    IF baseKey \in DOMAIN varyIndex THEN varyIndex[baseKey] ELSE <<>>

\* a rememberVariantHeaders that stores the list it is given, empty or not
rememberVariantHeadersAlways(baseKey, headers) ==
    [k \in DOMAIN varyIndex \cup {baseKey} |->
        IF k = baseKey THEN headers ELSE varyIndex[k]]

\* CacheHandler.rememberVariantHeaders, part_003:123-134: the index afterwards
rememberVariantHeaders(baseKey, headers) ==
    IF Len(headers) = 0
    THEN [k \in DOMAIN varyIndex \ {baseKey} |-> varyIndex[k]]
    ELSE [k \in DOMAIN varyIndex \cup {baseKey} |->
             IF k = baseKey THEN headers ELSE varyIndex[k]]

\* CacheHandler.lookupCacheEntry, part_003:108-121. Every stored value was
\* written by ToBuffer, so the decoding does not fail.
lookupCacheEntry(key) ==
    IF key \in DOMAIN backend
    THEN [found |-> TRUE, response |-> CacheableResponseFromBuffer(backend[key])]
    ELSE [found |-> FALSE, response |-> NoCached]

\* the completed request that a later one can be compared with
Done(r, o, key) == [req |-> r, out |-> o, key |-> key]

NoDone == Done(NoRequest, NoOut, "")

OthersIdle(g) == \A o \in Handlers \ {g} : hPc[o] = "idle"

\* a request is served by the first goroutine that is free: which one serves
\* it makes no difference to the handler
FirstIdle(g) == g = "h1" \/ hPc["h1"] # "idle"

\* the request that was replayed from the backend last: what it asked, the key
\* its entry was found under, the entry; whether the backend and the variant
\* index have been left alone since; the requests that were under way at the
\* time; whether a later request has returned since; whether this replay was
\* itself the second one of the same request, with another request in between
Hit(r, key, c, quiet, overlap, served, second) ==
    [req |-> r, key |-> key, entry |-> c, quiet |-> quiet, overlap |-> overlap,
     served |-> served, second |-> second]

NoHit == Hit(NoRequest, "", NoCached, FALSE, {}, FALSE, FALSE)

\* goroutine g asks again what lastHit asked, after that replay had returned
AsksAgain(g) ==
    /\ lastHit # NoHit
    /\ hReq[g] = lastHit.req
    /\ g \notin lastHit.overlap

\* goroutine g returns with a replay of the entry c it found under key: the
\* backend has been left alone if it still holds that entry under the key
Replayed(g, key, c) ==
    Hit(hReq[g], key, c, lookupCacheEntry(key) = [found |-> TRUE, response |-> c],
        {o \in Handlers \ {g} : hPc[o] # "idle"}, FALSE,
        AsksAgain(g) /\ lastHit.quiet /\ lastHit.served)

\* goroutine g returns without a replay
Returned(g) ==
    IF lastHit = NoHit THEN NoHit
    ELSE [lastHit EXCEPT !.overlap = @ \ {g},
                         !.served = @ \/ g \notin lastHit.overlap]

\* the backend took a value, or the variant index changed
Disturbed(h) == IF h = NoHit THEN NoHit ELSE [h EXCEPT !.quiet = FALSE]

\* a request that has read nothing and called nobody
NoTally == [reads |-> 0, calls |-> 0]

\* NewCacheHandler, part_003:31-38, over an empty backend
CacheInit ==
    /\ backend = <<>>
    /\ varyIndex = <<>>
    /\ hPc = [g \in Handlers |-> "idle"]
    /\ hReq = [g \in Handlers |-> NoRequest]
    /\ hNames = [g \in Handlers |-> <<>>]
    /\ hKey = [g \in Handlers |-> ""]
    /\ hRound = [g \in Handlers |-> 1]
    /\ hResp = [g \in Handlers |-> NoCached]
    /\ hCr = [g \in Handlers |-> NoResponse]
    /\ out = [g \in Handlers |-> NoOut]
    /\ stored = [g \in Handlers |-> ""]
    /\ started = 0
    /\ overlaps = 0
    /\ evictions = 0
    /\ alone = [g \in Handlers |-> TRUE]
    /\ prev = [g \in Handlers |-> NoDone]
    /\ lastDone = NoDone
    /\ lastHit = NoHit
    /\ lastWriter = ""
    /\ hTally = [g \in Handlers |-> NoTally]

\* ServeHTTP goes on: its locals and what the client has got so far
Continue(g, pc, names, key, round, response, cr, o) ==
    /\ hPc' = [hPc EXCEPT ![g] = pc]
    /\ hNames' = [hNames EXCEPT ![g] = names]
    /\ hKey' = [hKey EXCEPT ![g] = key]
    /\ hRound' = [hRound EXCEPT ![g] = round]
    /\ hResp' = [hResp EXCEPT ![g] = response]
    /\ hCr' = [hCr EXCEPT ![g] = cr]
    /\ out' = [out EXCEPT ![g] = o]
    /\ UNCHANGED <<hReq, stored, started, overlaps, evictions, alone, prev,
                   lastDone, lastWriter>>

\* ServeHTTP returns: the client has got o, the backend holds the response
\* under storedKey ("" when nothing was stored)
Finish(g, o, storedKey) ==
    /\ hPc' = [hPc EXCEPT ![g] = "idle"]
    /\ hNames' = [hNames EXCEPT ![g] = <<>>]
    /\ hKey' = [hKey EXCEPT ![g] = ""]
    /\ hRound' = [hRound EXCEPT ![g] = 1]
    /\ hResp' = [hResp EXCEPT ![g] = NoCached]
    /\ hCr' = [hCr EXCEPT ![g] = NoResponse]
    /\ out' = [out EXCEPT ![g] = o]
    /\ stored' = [stored EXCEPT ![g] = storedKey]
    /\ lastDone' = IF alone[g] /\ storedKey # ""
                     THEN Done(hReq[g], o, storedKey) ELSE NoDone
    /\ lastWriter' = IF storedKey # "" THEN g ELSE lastWriter
    /\ UNCHANGED <<hReq, started, overlaps, evictions, alone, prev>>

\* ServeHTTP, part_003:41-43: a request arrives. What is remembered of the
\* requests that have returned is forgotten, except for lastDone.
Begin(g, r) ==
    /\ hPc[g] = "idle"
    /\ FirstIdle(g)
    /\ started < MaxRequests
    /\ started' = started + 1
    /\ OthersIdle(g) \/ overlaps < MaxOverlaps
    /\ overlaps' = IF OthersIdle(g) THEN overlaps ELSE overlaps + 1
    /\ hPc' = [hPc EXCEPT ![g] = "load"]
    /\ hNames' = [hNames EXCEPT ![g] = <<>>]
    /\ hKey' = [hKey EXCEPT ![g] = CacheKey(r, <<>>)]
    /\ hRound' = [hRound EXCEPT ![g] = 1]
    /\ hReq' = [o \in Handlers |->
                   IF o = g THEN r
                   ELSE IF hPc[o] = "idle" THEN NoRequest ELSE hReq[o]]
    /\ out' = [o \in Handlers |->
                  IF o = g \/ hPc[o] = "idle" THEN NoOut ELSE out[o]]
    /\ stored' = [o \in Handlers |->
                     IF o = g \/ hPc[o] = "idle" THEN "" ELSE stored[o]]
    /\ alone' = [o \in Handlers |->
                    IF o = g THEN OthersIdle(g) ELSE hPc[o] = "idle"]
    /\ prev' = [o \in Handlers |->
                   IF o = g THEN (IF OthersIdle(g) THEN lastDone ELSE NoDone)
                   ELSE IF hPc[o] = "idle" THEN NoDone ELSE prev[o]]
    /\ lastWriter' = ""
    /\ UNCHANGED <<backend, varyIndex, hResp, hCr, evictions, lastDone, lastHit>>
    /\ hTally' = [o \in Handlers |->
                     IF o = g \/ hPc[o] = "idle" THEN NoTally ELSE hTally[o]]
    /\ UNCHANGED notCache

\* fetchFromCache, part_003:89-93
LoadVariantHeaders(g) ==
    /\ hPc[g] = "load"
    /\ LET headerNames == loadVariantHeaders(BaseKey(hReq[g]))
           names == IF Len(headerNames) > 0
                      THEN ApplyHeaderNames(headerNames) ELSE hNames[g]
       IN Continue(g, "lookup", names, CacheKey(hReq[g], names), hRound[g],
                   NoCached, NoResponse, out[g])
    /\ UNCHANGED <<backend, varyIndex, lastHit>>
    /\ UNCHANGED hTally
    /\ UNCHANGED notCache

\* a lookup whose hit is examined again in the second round as in the first
LookupExaminedAgain(g) ==
    /\ hPc[g] = "lookup"
    /\ LET entry == lookupCacheEntry(hKey[g]) IN
       IF entry.found
       THEN Continue(g, "remember", hNames[g], hKey[g], hRound[g],
                     entry.response, NoResponse, out[g])
       ELSE IF hKey[g] # BaseKey(hReq[g])
            THEN Continue(g, "lookupBase", hNames[g], hKey[g], hRound[g],
                          NoCached, NoResponse, out[g])
            ELSE Continue(g, "forward", hNames[g], hKey[g], hRound[g],
                          NoCached, NoResponse, out[g])
    /\ UNCHANGED lastHit
    /\ UNCHANGED <<backend, varyIndex>>
    /\ hTally' = [hTally EXCEPT ![g].reads = @ + 1]
    /\ UNCHANGED notCache

\* a lookup that asks shouldCacheRequest first and skips the backend for a
\* request that is no caching candidate
LookupByRules(g) ==
    /\ hPc[g] = "lookup"
    /\ LET entry == IF shouldCacheRequest(hReq[g])
                    THEN lookupCacheEntry(hKey[g])
                    ELSE [found |-> FALSE, response |-> NoCached]
       IN IF entry.found
          THEN IF hRound[g] = 1
               THEN Continue(g, "remember", hNames[g], hKey[g], 1,
                             entry.response, NoResponse, out[g])
               ELSE Finish(g, WriteCachedResponse(entry.response, hReq[g]), "")
          ELSE IF hKey[g] # BaseKey(hReq[g]) /\ shouldCacheRequest(hReq[g])
               THEN Continue(g, "lookupBase", hNames[g], hKey[g], hRound[g],
                             NoCached, NoResponse, out[g])
               ELSE Continue(g, "forward", hNames[g], hKey[g], hRound[g],
                             NoCached, NoResponse, out[g])
    /\ lastHit' = IF shouldCacheRequest(hReq[g]) /\ hKey[g] \in DOMAIN backend
                     /\ hRound[g] = 2
                  THEN Replayed(g, hKey[g], lookupCacheEntry(hKey[g]).response)
                  ELSE lastHit
    /\ UNCHANGED <<backend, varyIndex>>
    /\ hTally' = [hTally EXCEPT ![g].reads = @ + 1]
    /\ UNCHANGED notCache

\* fetchFromCache, part_003:94-99, and ServeHTTP, part_003:46 and 54-57
Lookup(g) ==
    /\ hPc[g] = "lookup"
    /\ LET entry == lookupCacheEntry(hKey[g]) IN
       IF entry.found
       THEN IF hRound[g] = 1
            THEN Continue(g, "remember", hNames[g], hKey[g], 1,
                          entry.response, NoResponse, out[g])
            ELSE Finish(g, WriteCachedResponse(entry.response, hReq[g]), "")
       ELSE IF hKey[g] # BaseKey(hReq[g])
            THEN Continue(g, "lookupBase", hNames[g], hKey[g], hRound[g],
                          NoCached, NoResponse, out[g])
            ELSE Continue(g, "forward", hNames[g], hKey[g], hRound[g],
                          NoCached, NoResponse, out[g])
    /\ lastHit' = LET entry == lookupCacheEntry(hKey[g]) IN
                  IF entry.found /\ hRound[g] = 2
                  THEN Replayed(g, hKey[g], entry.response) ELSE lastHit
    /\ UNCHANGED <<backend, varyIndex>>
    /\ hTally' = [hTally EXCEPT ![g].reads = @ + 1]
    /\ UNCHANGED notCache

\* fetchFromCache, part_003:99-105: the fallback to the base key
LookupBase(g) ==
    /\ hPc[g] = "lookupBase"
    /\ LET baseKey == BaseKey(hReq[g])
           entry == lookupCacheEntry(baseKey)
       IN IF entry.found
          THEN IF hRound[g] = 1
               THEN Continue(g, "remember", hNames[g], baseKey, 1,
                             entry.response, NoResponse, out[g])
               ELSE Finish(g, WriteCachedResponse(entry.response, hReq[g]), "")
          ELSE Continue(g, "forward", hNames[g], hKey[g], hRound[g],
                        NoCached, NoResponse, out[g])
    /\ lastHit' = LET entry == lookupCacheEntry(BaseKey(hReq[g])) IN
                  IF entry.found /\ hRound[g] = 2
                  THEN Replayed(g, BaseKey(hReq[g]), entry.response) ELSE lastHit
    /\ UNCHANGED <<backend, varyIndex>>
    /\ hTally' = [hTally EXCEPT ![g].reads = @ + 1]
    /\ UNCHANGED notCache

\* ServeHTTP, part_003:46-57: the entry found in the first round
Remember(g) ==
    /\ hPc[g] = "remember"
    /\ LET names == parseVaryHeader(hResp[g].HttpHeader) IN
       /\ varyIndex' = rememberVariantHeaders(BaseKey(hReq[g]), HeaderNames(names))
       /\ IF ~Matches(hReq[g], names, hResp[g].VariantHeader)
          THEN Continue(g, "load", names, hKey[g], 2, NoCached, NoResponse, out[g])
          ELSE Finish(g, WriteCachedResponse(hResp[g], hReq[g]), "")
       /\ lastHit' =
             IF Matches(hReq[g], names, hResp[g].VariantHeader)
             THEN Replayed(g, hKey[g], hResp[g])
             ELSE IF rememberVariantHeaders(BaseKey(hReq[g]), HeaderNames(names))
                        # varyIndex
                  THEN Disturbed(lastHit) ELSE lastHit
    /\ UNCHANGED backend
    /\ UNCHANGED hTally
    /\ UNCHANGED notCache

\* ServeHTTP, part_003:59-64: not a caching candidate
Bypass(g) ==
    /\ hPc[g] = "forward"
    /\ ~shouldCacheRequest(hReq[g])
    /\ \E answer \in Origin(hReq[g]) :
          Finish(g, Sent(answer.StatusCode,
                         Set(answer.HttpHeader, "X-Cache", "bypass"),
                         answer.Body, 1), "")
    /\ lastHit' = Returned(g)
    /\ UNCHANGED <<backend, varyIndex>>
    /\ hTally' = [hTally EXCEPT ![g].calls = @ + 1]
    /\ UNCHANGED notCache

\* ServeHTTP, part_003:66-70: the downstream handler writes through the
\* capture (part_004:81-93 and 206-214), then CacheStatus decides
Forward(g) ==
    /\ hPc[g] = "forward"
    /\ shouldCacheRequest(hReq[g])
    /\ \E answer \in Origin(hReq[g]) :
          LET cr == Response(answer.StatusCode, answer.HttpHeader, answer.Body)
              o == Sent(cr.StatusCode, copyHeaders(cr, FALSE), answer.Body, 1)
          IN /\ lastHit' = IF CacheStatus(cr).cacheable
                           THEN lastHit ELSE Returned(g)
             /\ IF CacheStatus(cr).cacheable
                THEN Continue(g, "rememberMiss", hNames[g], hKey[g], hRound[g],
                              NoCached, cr, o)
                ELSE Finish(g, o, "")
    /\ UNCHANGED <<backend, varyIndex>>
    /\ hTally' = [hTally EXCEPT ![g].calls = @ + 1]
    /\ UNCHANGED notCache

\* ServeHTTP, part_003:71-74
RememberMiss(g) ==
    /\ hPc[g] = "rememberMiss"
    /\ LET names == parseVaryHeader(hCr[g].HttpHeader) IN
       /\ varyIndex' = rememberVariantHeaders(BaseKey(hReq[g]), HeaderNames(names))
       /\ Continue(g, "store", names, CacheKey(hReq[g], names), hRound[g],
                   NoCached, hCr[g], out[g])
       /\ lastHit' =
             IF rememberVariantHeaders(BaseKey(hReq[g]), HeaderNames(names))
                   # varyIndex
             THEN Disturbed(lastHit) ELSE lastHit
    /\ UNCHANGED backend
    /\ UNCHANGED hTally
    /\ UNCHANGED notCache

\* a store that leaves an entry alone that is already under the key
StoreUnlessPresent(g) ==
    /\ hPc[g] = "store"
    /\ \E accepted \in BOOLEAN :
          LET encoded == ToBuffer(hCr[g], VariantHeader(hReq[g], hNames[g])) IN
          /\ backend' = IF accepted /\ hKey[g] \notin DOMAIN backend
                          THEN [k \in DOMAIN backend \cup {hKey[g]} |->
                                   IF k = hKey[g] THEN encoded ELSE backend[k]]
                          ELSE backend
          /\ Finish(g, out[g], IF accepted THEN hKey[g] ELSE "")
          /\ lastHit' = IF accepted THEN Disturbed(Returned(g)) ELSE Returned(g)
    /\ UNCHANGED varyIndex
    /\ UNCHANGED hTally
    /\ UNCHANGED notCache

\* ServeHTTP, part_003:74-83: h.cache.Set, which a backend may refuse (the
\* memory cache drops a value over its limits, memory_cache.go:56-59)
Store(g) ==
    /\ hPc[g] = "store"
    /\ \E accepted \in BOOLEAN :
          LET encoded == ToBuffer(hCr[g], VariantHeader(hReq[g], hNames[g])) IN
          /\ backend' = IF accepted
                          THEN [k \in DOMAIN backend \cup {hKey[g]} |->
                                   IF k = hKey[g] THEN encoded ELSE backend[k]]
                          ELSE backend
          /\ Finish(g, out[g], IF accepted THEN hKey[g] ELSE "")
          /\ lastHit' = IF accepted THEN Disturbed(Returned(g)) ELSE Returned(g)
    /\ UNCHANGED varyIndex
    /\ UNCHANGED hTally
    /\ UNCHANGED notCache

\* the backend evicts an entry or lets it expire
Evict(key) ==
    /\ key \in DOMAIN backend
    /\ evictions < MaxEvictions
    /\ evictions' = evictions + 1
    /\ backend' = [k \in DOMAIN backend \ {key} |-> backend[k]]
    /\ lastDone' = IF lastDone.key = key THEN NoDone ELSE lastDone
    /\ prev' = [g \in Handlers |-> IF prev[g].key = key THEN NoDone ELSE prev[g]]
    /\ lastHit' = IF lastHit.key = key THEN NoHit ELSE lastHit
    /\ UNCHANGED <<varyIndex, hPc, hReq, hNames, hKey, hRound, hResp, hCr, out,
                   stored, started, overlaps, alone, lastWriter>>
    /\ UNCHANGED hTally
    /\ UNCHANGED notCache

\* CacheHandler.ServeHTTP, part_003:41-84
ServeHTTP(g) ==
    \/ \E r \in Requests : Begin(g, r)
    \/ LoadVariantHeaders(g)
    \/ Lookup(g)
    \/ LookupBase(g)
    \/ Remember(g)
    \/ Bypass(g)
    \/ Forward(g)
    \/ RememberMiss(g)
    \/ Store(g)

\* every key a request of the model can be stored under
StorableKeys ==
    {CacheKey(r, names) : r \in Requests, names \in {<<>>, <<"Accept-Encoding">>}}

CacheNext ==
    \/ \E g \in Handlers : ServeHTTP(g)
    \/ \E key \in StorableKeys : Evict(key)

\* a request with one more header
WithHeader(r, name, value) == [r EXCEPT !.Header = Set(r.Header, name, value)]

\* one request for every case of shouldCacheRequest, part_003:147-153: GET and
\* HEAD, another method, the two upgrade headers, and Range
RuleRequests ==
    { Request("GET", "gzip", "", ""),
      Request("HEAD", "gzip", "", ""),
      Request("POST", "gzip", "", ""),
      WithHeader(Request("GET", "gzip", "", ""), "Connection", "Upgrade"),
      WithHeader(Request("GET", "gzip", "", ""), "Upgrade", "websocket"),
      Request("GET", "gzip", "", "bytes=0-1") }

\* CacheHandler.ServeHTTP, part_003:41-84, for these requests
ServeRuleRequest(g) ==
    \/ \E r \in RuleRequests : Begin(g, r)
    \/ LoadVariantHeaders(g)
    \/ Lookup(g)
    \/ LookupBase(g)
    \/ Remember(g)
    \/ Bypass(g)
    \/ Forward(g)
    \/ RememberMiss(g)
    \/ Store(g)

RuleKeys ==
    {CacheKey(r, names) : r \in RuleRequests, names \in {<<>>, <<"Accept-Encoding">>}}

RulesNext ==
    \/ \E g \in Handlers : ServeRuleRequest(g)
    \/ \E key \in RuleKeys : Evict(key)

\* requests of two hosts for which CacheKey feeds the same bytes into the hash
\* (variant.go:29-36): the key of the first with Accept-Encoding named is the
\* base key of the second; and the first with a Range header
CollidingRequests ==
    { Request("GET", "gzip", "", ""),
      [Request("GET", "br", "", "") EXCEPT
          !.Host = "example.comAccept-Encoding=gzip"],
      Request("GET", "gzip", "", "bytes=0-1") }

\* CacheHandler.ServeHTTP, part_003:41-84, for these requests
ServeCollidingRequest(g) ==
    \/ \E r \in CollidingRequests : Begin(g, r)
    \/ LoadVariantHeaders(g)
    \/ Lookup(g)
    \/ LookupBase(g)
    \/ Remember(g)
    \/ Bypass(g)
    \/ Forward(g)
    \/ RememberMiss(g)
    \/ Store(g)

CollidingKeys ==
    {CacheKey(r, names) : r \in CollidingRequests,
                          names \in {<<>>, <<"Accept-Encoding">>}}

CollideNext ==
    \/ \E g \in Handlers : ServeCollidingRequest(g)
    \/ \E key \in CollidingKeys : Evict(key)

(***************************************************************************)
(* One request that missed, in detail: the downstream handler writes       *)
(* through the capture or, for a request that is no caching candidate,     *)
(* straight to the client's ResponseWriter; what was kept is replayed to a *)
(* later client.                                                           *)
(***************************************************************************)
\* the client's http.ResponseWriter: Header(), and what went out: the status
\* line with the headers as they were at that time, and the bytes of the body
Writer(header, wroteHeader, status, sent, body) ==
    [Header |-> header, wroteHeader |-> wroteHeader, status |-> status,
     sent |-> sent, body |-> body]

NewWriter == Writer(<<>>, FALSE, 0, <<>>, <<>>)

\* w.WriteHeader, as called at part_004:177: the first call sends the status
\* line and the headers, a later one sends nothing
WriterWriteHeader(s, statusCode) ==
    IF s.wroteHeader THEN s
    ELSE [s EXCEPT !.wroteHeader = TRUE, !.status = statusCode, !.sent = s.Header]

\* w.dest.Write, as called at part_004:213: the status line goes first
WriterWrite(s, p) ==
    [WriterWriteHeader(s, 200) EXCEPT !.body = @ \o p]

\* what the server does with w when ServeHTTP has returned (part_003:84)
WriterFinish(s) == WriterWriteHeader(s, 200)

\* CacheableResponse.copyHeaders, part_004:166-178, on the client's writer
CopyHeadersInto(s, header, wasHit, statusCode) ==
    LET copied == [n \in DOMAIN s.Header \cup DOMAIN header |->
                      IF n \in DOMAIN header THEN header[n] ELSE s.Header[n]]
        marked == Set(copied, "X-Cache", IF wasHit THEN "hit" ELSE "miss")
    IN WriterWriteHeader([s EXCEPT !.Header = marked], statusCode)

\* the requests of the detailed view: a caching candidate and one with Range
CaptureRequests ==
    { Request("GET", "gzip", "", ""), Request("GET", "gzip", "", "bytes=0-1") }

\* the headers the downstream handler may set before it writes
HandlerHeaders ==
    {ResponseHeader(cc, "", "", "") : cc \in CacheControlValues \cup {""}}
       \cup {ResponseHeader("public, max-age=60", vary, etag, setCookie) :
                vary \in {"", "Accept-Encoding", "*"}, etag \in {"", "v1"},
                setCookie \in {"", "sid=1"}}

\* the status codes the downstream handler may write
HandlerStatusCodes == {199, 200, 304, 399, 400}

\* the entity tags a client may list in If-None-Match
IfNoneMatchLists == {<<>>, <<"v1">>, <<"v2">>, <<"v0", "v1">>, <<"v0", "v2">>}

\* the header value of a list: its elements with ", " between them
RECURSIVE JoinComma(_)
JoinComma(list) ==
    IF list = <<>> THEN ""
    ELSE IF Len(list) = 1 THEN Head(list)
    ELSE Head(list) \o ", " \o JoinComma(Tail(list))

NoKept == [blob |-> [gob |-> NoCached], at |-> 0, expires |-> 0]

\* ServeHTTP has found nothing in the cache (part_003:44-58)
CaptureFresh(r) ==
    /\ capPc = "missed"
    /\ capReq = r
    /\ crStatusCode = 0
    /\ crHttpHeader = <<>>
    /\ headersWritten = FALSE
    /\ buffer = <<>>
    /\ overflowed = FALSE
    /\ w = NewWriter
    /\ written = <<>>
    /\ writes = 0
    /\ kept = NoKept
    /\ tags = <<>>
    /\ replayed = NoOut

CaptureInit == \E r \in CaptureRequests : CaptureFresh(r)

\* the downstream handler writes through the capture
Wrapped == shouldCacheRequest(capReq)

\* ServeHTTP, part_003:59-61: no caching candidate, the client's writer is
\* marked and handed on as it is
MarkBypass ==
    /\ capPc = "missed"
    /\ ~shouldCacheRequest(capReq)
    /\ capPc' = "serving"
    /\ w' = [w EXCEPT !.Header = Set(w.Header, "X-Cache", "bypass")]
    /\ UNCHANGED <<capReq, crStatusCode, crHttpHeader, headersWritten, buffer,
                   overflowed, written, writes, kept, tags, replayed>>
    /\ UNCHANGED notCapture

\* ServeHTTP, part_003:66: NewCacheableResponse, part_004:34-42
NewCacheableResponse ==
    /\ capPc = "missed"
    /\ shouldCacheRequest(capReq)
    /\ capPc' = "serving"
    /\ crStatusCode' = 200
    /\ crHttpHeader' = <<>>
    /\ headersWritten' = FALSE
    /\ buffer' = <<>>
    /\ overflowed' = FALSE
    /\ UNCHANGED <<capReq, w, written, writes, kept, tags, replayed>>
    /\ UNCHANGED notCapture

\* the downstream handler sets its headers, before it writes anything:
\* CacheableResponse.Header, part_004:76-78, or the client's writer itself
HandlerHeader(header) ==
    /\ capPc = "serving"
    /\ header # <<>>
    /\ writes = 0
    /\ IF Wrapped
       THEN /\ ~headersWritten
            /\ crHttpHeader = <<>>
            /\ crHttpHeader' = header
            /\ w' = w
       ELSE /\ ~w.wroteHeader
            /\ DOMAIN w.Header = {"X-Cache"}
            /\ w' = [w EXCEPT !.Header =
                        [n \in DOMAIN w.Header \cup DOMAIN header |->
                            IF n \in DOMAIN header THEN header[n] ELSE w.Header[n]]]
            /\ crHttpHeader' = crHttpHeader
    /\ UNCHANGED <<capPc, capReq, crStatusCode, headersWritten, buffer,
                   overflowed, written, writes, kept, tags, replayed>>
    /\ UNCHANGED notCapture

\* the downstream handler writes the status line, once:
\* CacheableResponse.WriteHeader, part_004:89-93
HandlerWriteHeader(statusCode) ==
    /\ capPc = "serving"
    /\ IF Wrapped
       THEN /\ ~headersWritten
            /\ crStatusCode' = statusCode
            /\ w' = CopyHeadersInto(w, crHttpHeader, FALSE, statusCode)
            /\ headersWritten' = TRUE
       ELSE /\ ~w.wroteHeader
            /\ w' = WriterWriteHeader(w, statusCode)
            /\ UNCHANGED <<crStatusCode, headersWritten>>
    /\ UNCHANGED <<capPc, capReq, crHttpHeader, buffer, overflowed, written,
                   writes, kept, tags, replayed>>
    /\ UNCHANGED notCapture

\* the bytes of the next Write: the body is the bytes 1, 2, 3, ... in order
NextBytes(n) == [i \in 1..n |-> Len(written) + i]

\* a capture that hands on to the client only the bytes it could keep
HandlerWriteKeptOnly(n) ==
    /\ capPc = "serving"
    /\ writes < MaxWrites
    /\ writes' = writes + 1
    /\ written' = written \o NextBytes(n)
    /\ IF Wrapped
       THEN LET first == ~headersWritten
                opened == IF first
                            THEN CopyHeadersInto(w, crHttpHeader, FALSE, 200)
                            ELSE w
            IN /\ crStatusCode' = IF first THEN 200 ELSE crStatusCode
               /\ headersWritten' = TRUE
               /\ IF Len(buffer) + n > MaxBodySize
                  THEN overflowed' = TRUE /\ buffer' = buffer
                  ELSE overflowed' = overflowed /\ buffer' = buffer \o NextBytes(n)
               /\ w' = IF Len(buffer) + n > MaxBodySize
                          THEN WriterWrite(opened, <<>>)
                          ELSE WriterWrite(opened, NextBytes(n))
       ELSE /\ w' = WriterWrite(w, NextBytes(n))
            /\ UNCHANGED <<crStatusCode, headersWritten, buffer, overflowed>>
    /\ UNCHANGED <<capPc, capReq, crHttpHeader, kept, tags, replayed>>
    /\ UNCHANGED notCapture

\* the downstream handler writes n bytes of the body: CacheableResponse.Write,
\* part_004:81-86, and stashingWriter.Write, part_004:206-214
HandlerWrite(n) ==
    /\ capPc = "serving"
    /\ writes < MaxWrites
    /\ writes' = writes + 1
    /\ written' = written \o NextBytes(n)
    /\ IF Wrapped
       THEN LET first == ~headersWritten
                opened == IF first
                            THEN CopyHeadersInto(w, crHttpHeader, FALSE, 200)
                            ELSE w
            IN /\ crStatusCode' = IF first THEN 200 ELSE crStatusCode
               /\ headersWritten' = TRUE
               /\ IF Len(buffer) + n > MaxBodySize
                  THEN overflowed' = TRUE /\ buffer' = buffer
                  ELSE overflowed' = overflowed /\ buffer' = buffer \o NextBytes(n)
               /\ w' = WriterWrite(opened, NextBytes(n))
       ELSE /\ w' = WriterWrite(w, NextBytes(n))
            /\ UNCHANGED <<crStatusCode, headersWritten, buffer, overflowed>>
    /\ UNCHANGED <<capPc, capReq, crHttpHeader, kept, tags, replayed>>
    /\ UNCHANGED notCapture

\* h.next.ServeHTTP returns: at part_003:62-63 ServeHTTP returns with it
HandlerReturns ==
    /\ capPc = "serving"
    /\ capPc' = IF Wrapped THEN "returned" ELSE "done"
    /\ w' = IF Wrapped THEN w ELSE WriterFinish(w)
    /\ UNCHANGED <<capReq, crStatusCode, crHttpHeader, headersWritten, buffer,
                   overflowed, written, writes, kept, tags, replayed>>
    /\ UNCHANGED notCapture

\* stashingWriter.Body, part_004:216-221
StasherBody == IF overflowed THEN <<>> ELSE buffer

\* ServeHTTP, part_003:69-84: CacheStatus at the time t, ToBuffer and
\* h.cache.Set, which the backend may refuse; then ServeHTTP returns
StoreCaptured ==
    /\ capPc = "returned"
    /\ capPc' = "done"
    /\ w' = WriterFinish(w)
    /\ LET status == CacheStatusOf(overflowed, crStatusCode, crHttpHeader)
           variantHeader ==
               VariantHeader(capReq, parseVaryHeader(crHttpHeader))
           encoded == ToBuffer(Response(crStatusCode, crHttpHeader, StasherBody),
                               variantHeader)
       IN \E t \in 1..MaxTime, accepted \in BOOLEAN :
             kept' = IF status.cacheable /\ accepted
                       THEN [blob |-> encoded, at |-> t,
                             expires |-> t + status.maxAge]
                       ELSE NoKept
    /\ UNCHANGED <<capReq, crStatusCode, crHttpHeader, headersWritten, buffer,
                   overflowed, written, writes, tags, replayed>>
    /\ UNCHANGED notCapture

\* a later request finds what was kept: lookupCacheEntry, part_003:108-121,
\* and WriteCachedResponse, part_003:54-56
Replay(list) ==
    /\ capPc = "done"
    /\ kept # NoKept
    /\ capPc' = "replayed"
    /\ tags' = list
    /\ replayed' = WriteCachedResponse(CacheableResponseFromBuffer(kept.blob),
                                       Request("GET", "gzip", JoinComma(list), ""))
    /\ UNCHANGED <<capReq, crStatusCode, crHttpHeader, headersWritten, buffer,
                   overflowed, w, written, writes, kept>>
    /\ UNCHANGED notCapture

CaptureNext ==
    \/ MarkBypass
    \/ NewCacheableResponse
    \/ \E header \in HandlerHeaders : HandlerHeader(header)
    \/ \E statusCode \in HandlerStatusCodes : HandlerWriteHeader(statusCode)
    \/ \E n \in 0..(MaxBodySize + 1) : HandlerWrite(n)
    \/ HandlerReturns
    \/ StoreCaptured
    \/ \E list \in IfNoneMatchLists : Replay(list)

(***************************************************************************)
(* The X-Sendfile handler.  The ResponseWriter under the sendfileWriter is *)
(* either the server's (it holds a response to the Content-Length it has   *)
(* declared and sends no body to a HEAD) or one that takes whatever it is  *)
(* given, as httptest.ResponseRecorder does.                               *)
(***************************************************************************)
SinkKinds == {"server", "recorder"}

\* the file X-Sendfile names
SendfilePath == "/tmp/file.txt"

\* what may be at that path: nothing, or a file of up to MaxFileSize bytes
SendfileFiles ==
    {[exists |-> FALSE, bytes |-> <<>>]}
        \cup {[exists |-> TRUE, bytes |-> [i \in 1..n |-> 7]] : n \in 0..MaxFileSize}

\* what the wrapped handler writes as its own body
HandlerBody == <<1>>

\* a ResponseWriter nothing has been written to
FreshSink ==
    [Header |-> <<>>, wroteHeader |-> FALSE, status |-> 0, sent |-> <<>>,
     written |-> 0, body |-> <<>>]

\* ResponseWriter.WriteHeader of the sink: the first call sends the status and
\* the header map as it is then, a later call is ignored
SinkWriteHeader(s, statusCode) ==
    IF s.wroteHeader THEN s
    ELSE [s EXCEPT !.wroteHeader = TRUE, !.status = statusCode, !.sent = s.Header]

\* the Content-Length the sink has declared to the client, -1 for none
DeclaredLength(s) ==
    IF "Content-Length" \in DOMAIN s.sent
    THEN CHOOSE n \in 0..(MaxFileSize + 1) : Itoa(n) = s.sent["Content-Length"]
    ELSE 0 - 1

\* ResponseWriter.Write of the sink: the sink after it, the count and the error
SinkWrite(s0, method, kind, b) ==
    LET s == SinkWriteHeader(s0, 200)
        counted == [s EXCEPT !.written = @ + Len(b)]
    IN IF Len(b) = 0 THEN [sink |-> s, n |-> 0, err |-> ""]
       ELSE IF /\ kind = "server"
               /\ DeclaredLength(s) # 0 - 1
               /\ counted.written > DeclaredLength(s)
       THEN [sink |-> counted, n |-> 0, err |-> "http.ErrContentLength"]
       ELSE IF kind = "server" /\ method = "HEAD"
       THEN [sink |-> counted, n |-> Len(b), err |-> ""]
       ELSE [sink |-> [counted EXCEPT !.body = @ \o b], n |-> Len(b), err |-> ""]

\* setContentLength, sendfile.go:77-85
setContentLength(s, file) ==
    IF ~file.exists THEN [s EXCEPT !.Header = Del(@, "Content-Length")]
    ELSE [s EXCEPT !.Header = Set(@, "Content-Length", Itoa(Len(file.bytes)))]

\* http.ServeFile for a request without Range and conditions: 404 with its
\* text for a missing file, else 200 with the length and, unless the request
\* is a HEAD, the bytes of the file
ServeFile(s, method, kind, file) ==
    IF ~file.exists
    THEN LET h == Set(Del(s.Header, "Content-Length"), "Content-Type",
                      "text/plain; charset=utf-8")
             headed == SinkWriteHeader([s EXCEPT !.Header = h], 404)
         IN SinkWrite(headed, method, kind, <<4, 0, 4>>).sink
    ELSE LET h == Set(s.Header, "Content-Length", Itoa(Len(file.bytes)))
             headed == SinkWriteHeader([s EXCEPT !.Header = h], 200)
         IN IF method = "HEAD" THEN headed
            ELSE SinkWrite(headed, method, kind, file.bytes).sink

\* sendfileWriter.serveFile, sendfile.go:70-75
serveFile(s, method, kind, file) ==
    ServeFile(setContentLength(s, file), method, kind, file)

\* sendfileWriter.WriteHeader that looks for the X-Sendfile header on the first
\* header write only
sendfileWriteHeaderOnce(sw, statusCode, method, kind, file) ==
    IF sw.headerWritten
    THEN sw
    ELSE LET filename == Get(sw.sink.Header, "X-Sendfile")
             deleted == [sw.sink EXCEPT !.Header = Del(@, "X-Sendfile")]
         IN [headerWritten |-> TRUE,
             sendingFile |-> filename # "",
             sink |-> IF filename # "" THEN serveFile(deleted, method, kind, file)
                      ELSE SinkWriteHeader(deleted, statusCode)]

\* sendfileWriter.WriteHeader, sendfile.go:56-68, on the writer sw (its two
\* flags and its sink)
sendfileWriteHeader(sw, statusCode, method, kind, file) ==
    LET filename == Get(sw.sink.Header, "X-Sendfile")
        deleted == [sw.sink EXCEPT !.Header = Del(@, "X-Sendfile")]
    IN [headerWritten |-> TRUE,
        sendingFile |-> filename # "",
        sink |-> IF filename # "" THEN serveFile(deleted, method, kind, file)
                 ELSE SinkWriteHeader(deleted, statusCode)]

\* the sendfileWriter as it stands
SendfileWriter == [headerWritten |-> headerWritten, sendingFile |-> sendingFile,
           sink |-> sink]

SendfileInit ==
    /\ sendfileEnabled \in BOOLEAN
    /\ sfRequest \in {[Method |-> method,
                        Header |-> [n \in {"X-Sendfile-Type"} |-> "stale"]] :
                           method \in {"GET", "HEAD"}}
    /\ sfFile \in SendfileFiles
    /\ sinkKind \in SinkKinds
    /\ sink = FreshSink
    /\ headerWritten = FALSE
    /\ sendingFile = FALSE
    /\ sfPc = "new"
    /\ sfCalls = 0
    /\ sfLast = [op |-> "none", n |-> 0, err |-> ""]
    /\ sawMarker = FALSE

SendfileIdle ==
    /\ sendfileEnabled = FALSE
    /\ sfRequest = [Method |-> "GET", Header |-> <<>>]
    /\ sfFile = [exists |-> FALSE, bytes |-> <<>>]
    /\ sinkKind = "server"
    /\ sink = FreshSink
    /\ headerWritten = FALSE
    /\ sendingFile = FALSE
    /\ sfPc = "new"
    /\ sfCalls = 0
    /\ sfLast = [op |-> "none", n |-> 0, err |-> ""]
    /\ sawMarker = FALSE

sfConfig == <<sendfileEnabled, sfFile, sinkKind>>

\* SendfileHandler.ServeHTTP, sendfile.go:26-34: the request is tagged or
\* untagged, the writer wrapped or not, the next handler called
SendfileServeHTTP ==
    /\ sfPc = "new"
    /\ sfPc' = "next"
    /\ sfRequest' = [sfRequest EXCEPT !.Header =
                        IF sendfileEnabled THEN Set(@, "X-Sendfile-Type", "X-Sendfile")
                        ELSE Del(@, "X-Sendfile-Type")]
    /\ UNCHANGED <<sfConfig, sink, headerWritten, sendingFile, sfCalls, sfLast,
                   sawMarker>>
    /\ UNCHANGED notSend

\* the next handler sets X-Sendfile on w.Header(), sendfile.go:102-104
NextSetsXSendfile ==
    /\ sfPc = "next"
    /\ sfCalls < MaxSinkCalls
    /\ "X-Sendfile" \notin DOMAIN sink.Header
    /\ sfCalls' = sfCalls + 1
    /\ sink' = [sink EXCEPT !.Header = Set(@, "X-Sendfile", SendfilePath)]
    /\ sfLast' = [op |-> "Header.Set", n |-> 0, err |-> ""]
    /\ UNCHANGED <<sfConfig, sfRequest, headerWritten, sendingFile, sfPc, sawMarker>>
    /\ UNCHANGED notSend

\* the next handler calls w.WriteHeader: sendfileWriter.WriteHeader,
\* sendfile.go:56-68, or the sink's own when the handler is disabled
NextWriteHeader(statusCode) ==
    /\ sfPc = "next"
    /\ sfCalls < MaxSinkCalls
    /\ sfCalls' = sfCalls + 1
    /\ sfLast' = [op |-> "WriteHeader", n |-> 0, err |-> ""]
    /\ IF sendfileEnabled
       THEN LET after == sendfileWriteHeader(SendfileWriter, statusCode,
                                             sfRequest.Method, sinkKind, sfFile)
            IN /\ headerWritten' = after.headerWritten
               /\ sendingFile' = after.sendingFile
               /\ sink' = after.sink
               /\ sawMarker' = (sawMarker \/ after.sendingFile)
       ELSE /\ sink' = SinkWriteHeader(sink, statusCode)
            /\ UNCHANGED <<headerWritten, sendingFile, sawMarker>>
    /\ UNCHANGED <<sfConfig, sfRequest, sfPc>>
    /\ UNCHANGED notSend

\* the next handler calls w.Write: sendfileWriter.Write, sendfile.go:44-54, or
\* the sink's own when the handler is disabled
NextWrite(b) ==
    /\ sfPc = "next"
    /\ sfCalls < MaxSinkCalls
    /\ sfCalls' = sfCalls + 1
    /\ IF sendfileEnabled
       THEN LET after == IF ~headerWritten
                         THEN sendfileWriteHeader(SendfileWriter, 200, sfRequest.Method,
                                                  sinkKind, sfFile)
                         ELSE SendfileWriter
                under == SinkWrite(after.sink, sfRequest.Method, sinkKind, b)
            IN /\ headerWritten' = after.headerWritten
               /\ sendingFile' = after.sendingFile
               /\ sawMarker' = (sawMarker \/ (~headerWritten /\ after.sendingFile))
               /\ IF after.sendingFile
                  THEN /\ sink' = after.sink
                       /\ sfLast' = [op |-> "Write", n |-> 0,
                                     err |-> "http.ErrBodyNotAllowed"]
                  ELSE /\ sink' = under.sink
                       /\ sfLast' = [op |-> "Write", n |-> under.n, err |-> under.err]
       ELSE LET under == SinkWrite(sink, sfRequest.Method, sinkKind, b)
            IN /\ sink' = under.sink
               /\ sfLast' = [op |-> "Write", n |-> under.n, err |-> under.err]
               /\ UNCHANGED <<headerWritten, sendingFile, sawMarker>>
    /\ UNCHANGED <<sfConfig, sfRequest, sfPc>>
    /\ UNCHANGED notSend

\* h.next.ServeHTTP returns, sendfile.go:34; the server sends the header if
\* nothing has been written
NextReturns ==
    /\ sfPc = "next"
    /\ sfPc' = "done"
    /\ sink' = SinkWriteHeader(sink, 200)
    /\ UNCHANGED <<sfConfig, sfRequest, headerWritten, sendingFile, sfCalls,
                   sfLast, sawMarker>>
    /\ UNCHANGED notSend

SendfileNext ==
    \/ SendfileServeHTTP
    \/ NextSetsXSendfile
    \/ \E statusCode \in {200, 500} : NextWriteHeader(statusCode)
    \/ NextWrite(HandlerBody)
    \/ NextReturns

(***************************************************************************)
(* Variant.CacheKey as a function of the request and the Vary list.        *)
(***************************************************************************)
\* a request with the parts CacheKey reads
KeyRequest(method, path, query, host, acceptEncoding) ==
    [Method |-> method, Path |-> path, Query |-> query, Host |-> host,
     Header |-> HeaderWith([n \in {"Accept-Encoding"} |-> acceptEncoding])]

\* the requests the keys are computed for: two methods, two paths, queries
\* with and without parameters (two of them equal once encoded), two hosts,
\* Accept-Encoding absent or with one of two values
KeyRequests ==
    {KeyRequest(method, path, query, host, acceptEncoding) :
        method \in {"GET", "HEAD"},
        path \in {"/a", "/ab=1"},
        query \in {"", "b=1", "b=2&a=1", "a=1&b=2"},
        host \in {"example.com", "example.org"},
        acceptEncoding \in {"", "gzip", "br"}}

\* the Vary lists a stored resource may have set
KeyNameLists == {<<>>, <<"Accept-Encoding">>}

\* NewVariant for each of two requests, variant.go:17-19, with the header
\* names of the resource
KeyInit ==
    /\ keyReq \in [1..2 -> KeyRequests]
    /\ keyNames \in KeyNameLists
    /\ keyOf = <<>>

KeyIdle ==
    /\ keyReq = <<>>
    /\ keyNames = <<>>
    /\ keyOf = <<>>

\* Variant.CacheKey, variant.go:27-39, called for request i
VariantCacheKey(i) ==
    /\ i \notin DOMAIN keyOf
    /\ keyOf' = [j \in DOMAIN keyOf \cup {i} |->
                    IF j = i THEN CacheKey(keyReq[i], keyNames) ELSE keyOf[j]]
    /\ UNCHANGED <<keyReq, keyNames>>
    /\ UNCHANGED notKey

KeyNext == \E i \in 1..2 : VariantCacheKey(i)

(***************************************************************************)
(* The Vary header, rune by rune: Variant.SetResponseHeader and CacheKey   *)
(* for two variants of one request that are given different Vary values.   *)
(***************************************************************************)
\* the bytes of the header values, in byte order
ByteOrder == " *,-ABCDEFGHIJKLMNOPQRSTUVWXYZabcdefghijklmnopqrstuvwxyz"

ByteRank(c) == CHOOSE i \in 1..Len(ByteOrder) : SubSeq(ByteOrder, i, i) = c

UpperLetters == "ABCDEFGHIJKLMNOPQRSTUVWXYZ"

LowerLetters == "abcdefghijklmnopqrstuvwxyz"

IsUpper(c) == \E i \in 1..Len(UpperLetters) : SubSeq(UpperLetters, i, i) = c

IsLower(c) == \E i \in 1..Len(LowerLetters) : SubSeq(LowerLetters, i, i) = c

ToUpper(c) ==
    IF IsLower(c)
    THEN LET i == CHOOSE j \in 1..Len(LowerLetters) : SubSeq(LowerLetters, j, j) = c
         IN SubSeq(UpperLetters, i, i)
    ELSE c

ToLower(c) ==
    IF IsUpper(c)
    THEN LET i == CHOOSE j \in 1..Len(UpperLetters) : SubSeq(UpperLetters, j, j) = c
         IN SubSeq(LowerLetters, i, i)
    ELSE c

\* strings.Index for a separator of one byte, 0 for none
stringsIndex(s, sep) ==
    IF \E i \in 1..Len(s) : SubSeq(s, i, i) = sep
    THEN CHOOSE i \in 1..Len(s) :
            /\ SubSeq(s, i, i) = sep
            /\ \A j \in 1..(i - 1) : SubSeq(s, j, j) # sep
    ELSE 0

\* strings.Split(s, sep), variant.go:68
RECURSIVE stringsSplit(_, _)
stringsSplit(s, sep) ==
    LET i == stringsIndex(s, sep)
    IN IF i = 0 THEN <<s>>
       ELSE <<SubSeq(s, 1, i - 1)>> \o stringsSplit(SubSeq(s, i + 1, Len(s)), sep)

\* a byte a header name may hold (of the bytes of ByteOrder)
validHeaderFieldByte(c) == c \notin {" ", ","}

\* the letters of a valid name: upper case at the start and after a hyphen,
\* lower case elsewhere
RECURSIVE CanonicalRunes(_, _)
CanonicalRunes(s, upper) ==
    IF s = "" THEN ""
    ELSE LET c == SubSeq(s, 1, 1)
         IN (IF upper THEN ToUpper(c) ELSE ToLower(c))
               \o CanonicalRunes(SubSeq(s, 2, Len(s)), c = "-")

\* http.CanonicalHeaderKey, variant.go:70: a name with a byte that no header
\* name may hold is returned as it is
httpCanonicalHeaderKey(s) ==
    IF \E i \in 1..Len(s) : ~validHeaderFieldByte(SubSeq(s, i, i))
    THEN s
    ELSE CanonicalRunes(s, TRUE)

\* a < b as strings are compared, byte by byte
RECURSIVE stringLess(_, _)
stringLess(a, b) ==
    IF b = "" THEN FALSE
    ELSE IF a = "" THEN TRUE
    ELSE LET x == ByteRank(SubSeq(a, 1, 1))
             y == ByteRank(SubSeq(b, 1, 1))
         IN IF x # y THEN x < y
            ELSE stringLess(SubSeq(a, 2, Len(a)), SubSeq(b, 2, Len(b)))

\* slices.Sort, variant.go:72, as an insertion into the sorted rest
RECURSIVE slicesSort(_)
slicesSort(names) ==
    IF Len(names) <= 1 THEN names
    ELSE LET rest == slicesSort(Tail(names))
             first == Head(names)
             before == SelectSeq(rest, LAMBDA n : stringLess(n, first))
             after == SelectSeq(rest, LAMBDA n : ~stringLess(n, first))
         IN before \o <<first>> \o after

\* a parseVaryHeader that sorts the names and drops the repeated ones
RECURSIVE Compact(_)
Compact(names) ==
    IF Len(names) <= 1 THEN names
    ELSE IF names[1] = names[2] THEN Compact(Tail(names))
    ELSE <<names[1]>> \o Compact(Tail(names))

\* a parseVaryHeader that leaves the names in the order of the header
VariantParseVaryHeaderUnsorted(responseHeader) ==
    LET list == Get(responseHeader, "Vary") IN
    IF list = "" THEN <<>>
    ELSE LET names == stringsSplit(list, ",")
         IN [i \in 1..Len(names) |->
                httpCanonicalHeaderKey(stringsTrimSpace(names[i]))]

\* Variant.parseVaryHeader, variant.go:62-75, on the runes of the Vary value
VariantParseVaryHeader(responseHeader) ==
    LET list == Get(responseHeader, "Vary") IN
    IF list = "" THEN <<>>
    ELSE LET names == stringsSplit(list, ",")
         IN slicesSort([i \in 1..Len(names) |->
                           httpCanonicalHeaderKey(stringsTrimSpace(names[i]))])

\* the ways a Vary value may name a header
VaryTokens == {"Accept-Encoding", "accept-encoding", " Origin", "ORIGIN "}

\* the Vary values of at most n names, the empty value among them
RECURSIVE VaryValuesOf(_)
VaryValuesOf(n) ==
    IF n = 0 THEN {""}
    ELSE LET shorter == VaryValuesOf(n - 1)
         IN shorter \cup VaryTokens
                \cup {v \o "," \o t : v \in shorter \ {""}, t \in VaryTokens}

VaryValues == VaryValuesOf(MaxVaryNames)

\* the requests the variants are built for
VaryRequests ==
    {[Method |-> "GET", Path |-> "/a", Query |-> "", Host |-> "example.com",
      Header |-> HeaderWith([n \in {"Accept-Encoding", "Origin"} |->
                    IF n = "Accept-Encoding" THEN acceptEncoding ELSE origin])] :
        acceptEncoding \in {"", "gzip"}, origin \in {"", "https://a.example"}}

NoVariant == [set |-> FALSE, headerNames |-> <<>>, key |-> "none"]

\* NewVariant, variant.go:17-19, twice for one request
VaryInit ==
    /\ varyValue \in [1..2 -> VaryValues]
    /\ varyReq \in VaryRequests
    /\ variants = [i \in 1..2 |-> NoVariant]

VaryIdle ==
    /\ varyValue = <<>>
    /\ varyReq = NoRequest
    /\ variants = <<>>

\* Variant.SetResponseHeader, variant.go:22-24, with the response header of
\* variant i
SetResponseHeader(i) ==
    /\ ~variants[i].set
    /\ variants' = [variants EXCEPT ![i] =
          [set |-> TRUE,
           headerNames |->
               VariantParseVaryHeader([n \in {"Vary"} |-> varyValue[i]]),
           key |-> "none"]]
    /\ UNCHANGED <<varyValue, varyReq>>
    /\ UNCHANGED notVary

\* Variant.CacheKey, variant.go:27-39, of variant i
VariantKey(i) ==
    /\ variants[i].set
    /\ variants[i].key = "none"
    /\ variants' = [variants EXCEPT ![i].key = CacheKey(varyReq, variants[i].headerNames)]
    /\ UNCHANGED <<varyValue, varyReq>>
    /\ UNCHANGED notVary

VaryNext ==
    \/ \E i \in 1..2 : SetResponseHeader(i)
    \/ \E i \in 1..2 : VariantKey(i)

\* the parts without a specification of their own, at rest
RestIdle ==
    KeyIdle /\ CommandIdle /\ EnvIdle /\ ProxyIdle /\ SendfileIdle /\ VaryIdle

\* the parts with a specification of their own, at rest
OldIdle ==
    /\ cfgValid = TRUE /\ SupFresh /\ NewMemoryCache(1, 1) /\ CacheInit
    /\ CaptureFresh(Request("GET", "gzip", "", ""))

(***************************************************************************)
(* The specifications.                                                     *)
(***************************************************************************)
\* the supervisor alone
\* the state of the detailed view in the other specifications
CaptureIdle == CaptureFresh(Request("GET", "gzip", "", ""))

InitSup ==
    /\ SupInit /\ NewMemoryCache(1, 1) /\ CacheInit /\ CaptureIdle
    /\ KeyIdle /\ EnvIdle /\ ProxyIdle /\ SendfileIdle /\ VaryIdle

SpecSup == InitSup /\ [][SupNext]_vars

\* the memory cache alone
InitMem ==
    MemInit /\ cfgValid = TRUE /\ SupFresh /\ CacheInit /\ CaptureIdle /\ RestIdle

SpecMem == InitMem /\ [][MemNext]_vars

\* the memory cache on the ristretto backend alone
InitRistretto ==
    MemInit /\ cfgValid = TRUE /\ SupFresh /\ CacheInit /\ CaptureIdle /\ RestIdle

SpecRistretto == InitRistretto /\ [][RistrettoNext]_vars

\* the cache handler alone, over a backend that is only known as a Cache
InitCache ==
    /\ CacheInit
    /\ cfgValid = TRUE /\ SupFresh /\ NewMemoryCache(1, 1) /\ CaptureIdle
    /\ RestIdle

SpecCache == InitCache /\ [][CacheNext]_vars

\* The cache handler once the request of cache_handler_test.go:83-84 has been
\* answered as in cache_handler_test.go:73-79 and stored: the requests counted
\* are the ones that follow.
CachePopulated ==
    LET r == Request("GET", "gzip", "", "")
        names == <<"Accept-Encoding">>
        cr == Response(200, ResponseHeader("public, max-age=60", "Accept-Encoding",
                                           "v1", ""), <<1>>)
    IN /\ backend = [k \in {CacheKey(r, names)} |->
                        ToBuffer(cr, VariantHeader(r, names))]
       /\ varyIndex = [k \in {BaseKey(r)} |-> HeaderNames(names)]
       /\ hPc = [g \in Handlers |-> "idle"]
       /\ hReq = [g \in Handlers |-> NoRequest]
       /\ hNames = [g \in Handlers |-> <<>>]
       /\ hKey = [g \in Handlers |-> ""]
       /\ hRound = [g \in Handlers |-> 1]
       /\ hResp = [g \in Handlers |-> NoCached]
       /\ hCr = [g \in Handlers |-> NoResponse]
       /\ out = [g \in Handlers |-> NoOut]
       /\ stored = [g \in Handlers |-> ""]
       /\ started = 0
       /\ overlaps = 0
       /\ evictions = 0
       /\ alone = [g \in Handlers |-> TRUE]
       /\ prev = [g \in Handlers |-> NoDone]
       /\ lastDone = NoDone
       /\ lastHit = NoHit
       /\ lastWriter = ""
       /\ hTally = [g \in Handlers |-> NoTally]

InitWarm ==
    /\ CachePopulated
    /\ cfgValid = TRUE /\ SupFresh /\ NewMemoryCache(1, 1) /\ CaptureIdle
    /\ RestIdle

SpecWarm == InitWarm /\ [][CacheNext]_vars

\* the cache handler over an empty backend, asked with a request of every
\* case of shouldCacheRequest
InitRules ==
    /\ CacheInit
    /\ cfgValid = TRUE /\ SupFresh /\ NewMemoryCache(1, 1) /\ CaptureIdle
    /\ RestIdle

SpecRules == InitRules /\ [][RulesNext]_vars

\* the cache handler over an empty backend, asked with requests whose keys
\* coincide
InitCollide ==
    /\ CacheInit
    /\ cfgValid = TRUE /\ SupFresh /\ NewMemoryCache(1, 1) /\ CaptureIdle
    /\ RestIdle

SpecCollide == InitCollide /\ [][CollideNext]_vars

\* one request that missed, in detail
InitCapture ==
    /\ CaptureInit
    /\ cfgValid = TRUE /\ SupFresh /\ NewMemoryCache(1, 1) /\ CacheInit
    /\ RestIdle

SpecCapture == InitCapture /\ [][CaptureNext]_vars

\* the cache key of two requests
InitKey == KeyInit /\ OldIdle /\ CommandIdle /\ EnvIdle /\ ProxyIdle /\ SendfileIdle /\ VaryIdle

\* the command line alone
InitCommand ==
    CommandInit /\ OldIdle /\ KeyIdle /\ EnvIdle /\ ProxyIdle /\ SendfileIdle /\ VaryIdle

SpecCommand == InitCommand /\ [][CommandNext]_vars

\* the environment alone
InitEnv == EnvInit /\ OldIdle /\ KeyIdle /\ CommandIdle /\ ProxyIdle /\ SendfileIdle /\ VaryIdle

SpecEnv == InitEnv /\ [][EnvNext]_vars

\* the reverse proxy's construction and its error handler
InitProxy ==
    ProxyInit /\ OldIdle /\ KeyIdle /\ CommandIdle /\ EnvIdle /\ SendfileIdle /\ VaryIdle

SpecProxy == InitProxy /\ [][ProxyNext]_vars

\* the X-Sendfile handler and one response of the handler it wraps
InitSendfile ==
    SendfileInit /\ OldIdle /\ KeyIdle /\ CommandIdle /\ EnvIdle /\ ProxyIdle /\ VaryIdle

SpecSendfile == InitSendfile /\ [][SendfileNext]_vars

SpecKey == InitKey /\ [][KeyNext]_vars

\* the Vary header alone
InitVary ==
    VaryInit /\ OldIdle /\ KeyIdle /\ CommandIdle /\ EnvIdle /\ ProxyIdle /\ SendfileIdle

SpecVary == InitVary /\ [][VaryNext]_vars

(***************************************************************************)
(* Claims about the supervisor.                                            *)
(***************************************************************************)
\* a Start goroutine that has its result and has not returned yet
StartHasResult(t) == startPc[t] \in {"deferClose", "clear", "clearUnlock"}

\* a Stop call that has returned
StopReturned(t) == stopPc[t] = "idle" /\ stopRet[t] # "none"

\* C4: for every interleaving of Start and Stop calls, at most one supervised
\* process is alive at any time.
C4_AtMostOneProcess ==
    Cardinality({h \in Cmds : proc[h] = "running"}) <= 1

\* C5: when the process exits with a non-zero code after a Stop has marked the
\* supervisor as stopping for that process, the Start that supervises it
\* returns nil.
C5_StoppedExitReturnsNil ==
    \A t \in Starters :
        (/\ StartHasResult(t)
         /\ proc[startCmd[t]] = "exited"
         /\ exitCode[startCmd[t]] # 0
         /\ markedBeforeExit[startCmd[t]])
        => startRet[t] = "nil"

\* C6: when the process exits with a non-zero code while the supervisor is not
\* stopping (no Stop was issued for that process before the exit), Start
\* returns an error.
C6_UnstoppedExitReturnsError ==
    \A t \in Starters :
        (/\ StartHasResult(t)
         /\ proc[startCmd[t]] = "exited"
         /\ exitCode[startCmd[t]] # 0
         /\ ~flagAtExit[startCmd[t]]
         /\ ~markedBeforeExit[startCmd[t]])
        => startRet[t] = "error"

\* what one Stop call on a process may have done so far, in order
StopLogsInOrder ==
    { <<>>,
      <<"signal">>,
      <<"signal", "sendError">>,
      <<"signal", "done">>,
      <<"signal", "timeout">>,
      <<"signal", "timeout", "kill">>,
      <<"signal", "timeout", "kill", "sendError">>,
      <<"signal", "timeout", "kill", "done">> }

\* the stop signal comes first, the kill only after the grace period ran out
StopOrder ==
    /\ \A t \in Stoppers : stopLog[t] \in StopLogsInOrder
    /\ \A h \in Cmds : "kill" \in sigSent[h] => "stop" \in sigSent[h]

\* C7 as stated: Stop on a running process sends the stop signal first, kills
\* only after the grace period ran out, and in every case returns only after
\* the done channel is closed.
C7_StopReturnsAfterExit ==
    /\ StopOrder
    /\ \A t \in Stoppers :
         (StopReturned(t) /\ stopLog[t] # <<>>) => closed[stopDone[t]]

\* C7 amended: the same order of signal, grace period and kill; Stop returns
\* nil only after the done channel is closed, and returns before that only
\* with the error of a signal or kill that could not be sent.
C7_StopReturnsNilAfterExit ==
    /\ StopOrder
    /\ \A t \in Stoppers :
         (StopReturned(t) /\ stopLog[t] # <<>>) =>
            IF stopRet[t] = "nil"
              THEN /\ closed[stopDone[t]]
                   /\ stopLog[t][Len(stopLog[t])] = "done"
              ELSE stopLog[t][Len(stopLog[t])] = "sendError"

\* a Stop killed the process after the grace period and returned nil
C7_Witness ==
    \E t \in Stoppers :
        /\ StopReturned(t)
        /\ stopRet[t] = "nil"
        /\ stopLog[t] = <<"signal", "timeout", "kill", "done">>
        /\ closed[stopDone[t]]

\* C8: a Stop that finds no process handle (the supervisor is idle) sends no
\* signal, is not blocked, and returns nil, every time it is called.
C8_StopIdleIsNoOp ==
    \A t \in Stoppers :
        /\ (stopPc[t] = "check" /\ stopCmd[t] = 0) => ENABLED StopReturnIdle(t)
        /\ (StopReturned(t) /\ stopCmd[t] = 0) =>
              (stopRet[t] = "nil" /\ stopLog[t] = <<>>)

\* a Stop returned nil in Idle although stopping was already set by an earlier
\* Stop: after a process has exited and its Start has returned
C8_Witness ==
    \E t \in Stoppers :
        /\ StopReturned(t)
        /\ stopCmd[t] = 0
        /\ stopRet[t] = "nil"
        /\ cmd = 0
        /\ \A u \in Starters : startPc[u] = "idle"
        /\ \E h \in Cmds : proc[h] = "exited"

\* the goroutines that are inside a critical section of s.mu
InCritical(t) ==
    IF t \in Starters
      THEN startPc[t] \in {"registerUnlock", "readUnlock", "clearUnlock"}
      ELSE stopPc[t] = "unlock"

\* the goroutines that are at a blocking operation (cmd.Start, cmd.Wait, the
\* signal, the select on done and the timer, the kill, the receive on done)
AtBlockingPoint(t) ==
    IF t \in Starters
      THEN startPc[t] \in {"launch", "wait"}
      ELSE stopPc[t] \in {"signal", "select", "kill", "waitDone"}

\* a step of a call in progress, or of the process it waits for
SupProgress ==
    \/ \E t \in Starters : StartBody(t)
    \/ \E t \in Stoppers : StopBody(t)
    \/ Environment

\* C9: s.mu is held only inside the short critical sections, never at a
\* blocking point; whoever holds it can release it at once, so a Stop that
\* waits for it gets it; and no state with a call in progress is stuck.
C9_LockNeverHeldWhileBlocking ==
    /\ mu # "free" => InCritical(mu)
    /\ \A t \in Starters \cup Stoppers : AtBlockingPoint(t) => mu # t
    /\ \A t \in Stoppers :
         (stopPc[t] = "lock" /\ mu # "free") =>
            ENABLED (\E u \in Starters \cup Stoppers :
                        /\ IF u \in Starters
                             THEN StartBody(u) ELSE StopBody(u)
                        /\ mu' = "free")
    /\ ((\E t \in Starters : startPc[t] # "idle")
          \/ (\E t \in Stoppers : stopPc[t] # "idle")) => ENABLED SupProgress

\* a Stop holds the lock while a Start is blocked waiting for its running process
C9_Witness ==
    \E t \in Stoppers, u \in Starters :
        /\ mu = t
        /\ startPc[u] = "wait"
        /\ proc[startCmd[u]] = "running"
        /\ stopCmd[t] = startCmd[u]

\* C10: once a Stop has set stopping for a process it stays set until that
\* process has exited, and only a Start that registers a new process clears it.
C10_StoppingMonotonic ==
    [][(stopping /\ ~stopping') =>
          /\ cmd' # 0
          /\ cmd' # cmd
          /\ \A h \in Cmds : markedBeforeExit[h] => proc[h] \in {"exited", "failed"}
      ]_vars

(***************************************************************************)
(* Claims about the memory cache.                                          *)
(***************************************************************************)
\* C3: in every reachable state of the memory cache the total tracked size is
\* at most the configured capacity.
C3_SizeWithinCapacity == size <= capacity

\* a Set had to evict an entry to admit a value, and the cache is full
C3_Witness ==
    /\ memLast.op = "set"
    /\ memLast.ok
    /\ Len(memLast.evicted) > 0
    /\ Len(memLast.value) > 0
    /\ size = capacity

(***************************************************************************)
(* Claims about the cache handler.                                         *)
(***************************************************************************)
\* the request g has completed follows an identical one: that one ran alone,
\* was answered by the origin (miss) and stored, nothing was served after it
\* or together with g, and its entry was neither evicted nor expired
SecondIdentical(g) ==
    /\ hPc[g] = "idle"
    /\ XCache(out[g]) # ""
    /\ alone[g]
    /\ prev[g].key # ""
    /\ prev[g].key \in DOMAIN backend
    /\ prev[g].req = hReq[g]
    /\ XCache(prev[g].out) = "miss"

\* the second request names the ETag of the first response in If-None-Match
NamesStoredEtag(g) ==
    wasNotModified(Response(prev[g].out.status, prev[g].out.header,
                            prev[g].out.body), hReq[g])

StoresVariant(g) ==
    /\ hPc[g] = "store"
    /\ hPc'[g] = "idle"
    /\ Len(parseVaryHeader(hCr[g].HttpHeader)) > 0
    /\ stored'[g] # ""

\* the entry is under the variant key, and nothing else in the backend changed
StoredUnderVariantKey(g) ==
    LET r == hReq[g]
        names == parseVaryHeader(hCr[g].HttpHeader)
        key == stored'[g]
    IN /\ key = BaseKey(r) \o HeaderPairs(r, names)
       /\ key # BaseKey(r)
       /\ key \in DOMAIN backend'
       /\ \A i \in 1..Len(names) :
             Get(CacheableResponseFromBuffer(backend'[key]).VariantHeader,
                 names[i]) = Get(r.Header, names[i])
       /\ DOMAIN backend' = DOMAIN backend \cup {key}
       /\ \A k \in DOMAIN backend \ {key} : backend'[k] = backend[k]

SecondReturns(g) ==
    /\ hPc[g] # "idle"
    /\ hPc'[g] = "idle"
    /\ AsksAgain(g)
    /\ lastHit.key \in DOMAIN backend

StoreAccepted(g) ==
    /\ hPc[g] = "store"
    /\ hPc'[g] = "idle"
    /\ stored'[g] # ""

RECURSIVE SplitLexemes(_, _)
SplitLexemes(lex, sep) ==
    IF \A i \in 1..Len(lex) : lex[i] # sep THEN <<lex>>
    ELSE LET i == CHOOSE k \in 1..Len(lex) :
                     lex[k] = sep /\ \A j \in 1..(k - 1) : lex[j] # sep
         IN <<SubSeq(lex, 1, i - 1)>>
               \o SplitLexemes(SubSeq(lex, i + 1, Len(lex)), sep)

\* the directives of a Cache-Control value, as HTTP reads it: the elements
\* between the commas, blanks dropped, each a name with or without =value
Directives(cc) ==
    LET elements == SplitLexemes(Lexemes(cc), ",")
        Directive(element) ==
            LET parts == SplitLexemes(SelectSeq(element, LAMBDA x : x # " "), "=")
            IN [name |-> Concat(parts[1]),
                value |-> IF Len(parts) > 1 THEN Concat(parts[2]) ELSE ""]
    IN {Directive(elements[i]) : i \in 1..Len(elements)}

HasDirective(cc, name) == \E d \in Directives(cc) : d.name = name

\* the value of s-max-age if that directive is there, otherwise the one of
\* max-age; "" if neither is there
SelectedAge(cc) ==
    LET named(name) == {d \in Directives(cc) : d.name = name}
        chosen == IF named("s-max-age") # {} THEN named("s-max-age")
                  ELSE named("max-age")
    IN IF chosen = {} THEN "" ELSE (CHOOSE d \in chosen : TRUE).value

IsPositiveInteger(value) == value \in DOMAIN Atoi /\ Atoi[value] > 0

\* the capture exists: the request is a caching candidate and has been wrapped
Capturing == Wrapped /\ capPc # "missed"

\* the rule of the claim, on the capture as it is
CacheableByRule ==
    LET cc == Get(crHttpHeader, "Cache-Control")
        vary == parseVaryHeader(crHttpHeader)
    IN /\ ~overflowed
       /\ crStatusCode \in 200..399
       /\ crStatusCode # 304
       /\ \A i \in 1..Len(vary) : vary[i] # "*"
       /\ HasDirective(cc, "public")
       /\ ~HasDirective(cc, "no-cache")
       /\ IsPositiveInteger(SelectedAge(cc))

C14_OverflowOnlyDisqualifies ==
    Capturing =>
       /\ w.body = written
       /\ overflowed <=> Len(written) > MaxBodySize
       /\ kept # NoKept =>
             /\ ~overflowed
             /\ Len(written) <= MaxBodySize
             /\ CacheableResponseFromBuffer(kept.blob).Body = written

\* a response that only its size disqualifies: written in two pieces, the
\* second one over the ceiling, delivered whole and not kept
C14_Witness ==
    /\ capPc = "done"
    /\ Wrapped
    /\ crStatusCode = 200
    /\ Get(crHttpHeader, "Cache-Control") = "public, max-age=60"
    /\ Get(crHttpHeader, "Vary") = ""
    /\ writes = 2
    /\ 0 < Len(buffer)
    /\ Len(written) > MaxBodySize
    /\ overflowed
    /\ w.body = written
    /\ kept = NoKept

\* C17: every response that has left the handler went out with an X-Cache
\* header: miss when it was captured from the downstream handler, bypass when
\* the request was no caching candidate, hit when it was replayed from the
\* store, whatever the downstream handler wrote, nothing at all included.
C17_EveryResponseMarked ==
    /\ capPc \in {"done", "replayed"} =>
          /\ w.wroteHeader
          /\ Get(w.sent, "X-Cache") = IF Wrapped THEN "miss" ELSE "bypass"
    /\ capPc = "replayed" => XCache(replayed) = "hit"

\* C15: what is kept for a cacheable capture decodes to the captured status
\* code, body and variant header and to the captured headers without
\* Set-Cookie; so neither the kept entry nor a replay of it carries the
\* Set-Cookie of the captured response, while the response that went to the
\* first client carries it.
C15_RoundTripDropsSetCookie ==
    /\ (Capturing /\ kept # NoKept) =>
          LET c == CacheableResponseFromBuffer(kept.blob) IN
          /\ c.StatusCode = crStatusCode
          /\ c.Body = written
          /\ c.VariantHeader = VariantHeader(capReq, parseVaryHeader(crHttpHeader))
          /\ "Set-Cookie" \notin DOMAIN c.HttpHeader
          /\ DOMAIN c.HttpHeader = DOMAIN crHttpHeader \ {"Set-Cookie"}
          /\ \A n \in DOMAIN c.HttpHeader : c.HttpHeader[n] = crHttpHeader[n]
    /\ capPc = "replayed" => "Set-Cookie" \notin DOMAIN replayed.header
    /\ (Capturing /\ capPc \in {"done", "replayed"}
           /\ "Set-Cookie" \in DOMAIN crHttpHeader) =>
          Get(w.sent, "Set-Cookie") = crHttpHeader["Set-Cookie"]

\* C16: a replay of a cached response that has an ETag, to a request whose
\* If-None-Match lists that ETag among its comma-separated, trimmed elements,
\* is the status 304 with the cached headers and no body; every other replay
\* is the cached status, headers and body. Either way the downstream handler
\* is not called and the headers carry X-Cache: hit.
C16_ReplayRule ==
    capPc = "replayed" =>
       LET c == CacheableResponseFromBuffer(kept.blob)
           etag == Get(c.HttpHeader, "Etag")
           listed == etag # "" /\ \E i \in 1..Len(tags) : tags[i] = etag
       IN /\ replayed.header = Set(c.HttpHeader, "X-Cache", "hit")
          /\ replayed.origin = 0
          /\ IF listed
             THEN replayed.status = 304 /\ replayed.body = <<>>
             ELSE replayed.status = c.StatusCode /\ replayed.body = c.Body

\* the ETag of a cached response with a body is the second element of the
\* client's list: the replay is a 304 without the body
C16_Witness ==
    /\ capPc = "replayed"
    /\ tags = <<"v0", "v1">>
    /\ Get(CacheableResponseFromBuffer(kept.blob).HttpHeader, "Etag") = "v1"
    /\ CacheableResponseFromBuffer(kept.blob).Body # <<>>
    /\ replayed.status = 304
    /\ replayed.body = <<>>

(***************************************************************************)
(* Claims about requests that are no caching candidates.                   *)
(***************************************************************************)
\* the requests the claim names: not GET or HEAD, or with Connection: Upgrade,
\* or with Upgrade: websocket, or with a Range header
NamedForBypass(r) ==
    \/ r.Method \notin {"GET", "HEAD"}
    \/ "Connection" \in DOMAIN r.Header /\ r.Header["Connection"] = "Upgrade"
    \/ "Upgrade" \in DOMAIN r.Header /\ r.Header["Upgrade"] = "websocket"
    \/ "Range" \in DOMAIN r.Header

\* the request goroutine g is working on once the step is taken
RequestOfStep(g) == IF hPc[g] = "idle" THEN hReq'[g] ELSE hReq[g]

\* C18: a request the claim names that finds nothing in the cache is answered
\* by the downstream handler, called once with the client's own writer: the
\* client gets the handler's status, headers and whole body, with X-Cache:
\* bypass. No step of such a request, from its arrival to its return, changes
\* the backend or the variant index, and nothing is stored for it. Every
\* other request that finds nothing goes through the capture.
C18_BypassLeavesCacheAlone ==
    [][\A g \in Handlers :
          (hPc'[g] # hPc[g] /\ hPc[g] # "remember") =>
             LET r == RequestOfStep(g) IN
             /\ NamedForBypass(r) =>
                   /\ backend' = backend
                   /\ varyIndex' = varyIndex
                   /\ hPc'[g] \notin {"rememberMiss", "store"}
                   /\ stored'[g] = ""
                   /\ hPc[g] = "forward" =>
                         /\ hPc'[g] = "idle"
                         /\ XCache(out'[g]) = "bypass"
                         /\ out'[g].origin = 1
                         /\ \E answer \in Origin(r) :
                               /\ out'[g].status = answer.StatusCode
                               /\ out'[g].body = answer.Body
                               /\ out'[g].header =
                                     Set(answer.HttpHeader, "X-Cache", "bypass")
             /\ (~NamedForBypass(r) /\ hPc[g] = "forward") =>
                   XCache(out'[g]) = "miss"]_vars

\* a request with Upgrade: websocket has been answered by the downstream
\* handler past the cache, with a body over the ceiling, while the cache held
\* an entry of another request
C18_Witness ==
    \E g \in Handlers :
       /\ hPc[g] = "idle"
       /\ Get(hReq[g].Header, "Upgrade") = "websocket"
       /\ XCache(out[g]) = "bypass"
       /\ out[g].origin = 1
       /\ Len(out[g].body) > MaxBodySize
       /\ stored[g] = ""
       /\ backend # <<>>
       /\ varyIndex # <<>>

(***************************************************************************)
(* Claims about Set of the memory cache.                                   *)
(***************************************************************************)
\* the step is a call of Set that the cache accepted
SetAccepted == memLast'.op = "set" /\ memLast'.ok /\ now' = now

\* the bytes the entries under these keys hold before the call
RECURSIVE BytesUnder(_)
BytesUnder(evicted) ==
    IF evicted = <<>> THEN 0
    ELSE Len(items[Head(evicted)].value) + BytesUnder(Tail(evicted))

\* the value fits once these entries are gone: what the cache holds without
\* them, and without the old value under the key, leaves room for it
FitsWithout(key, value, evicted) ==
    LET gone == {evicted[i] : i \in 1..Len(evicted)}
        old == IF key \in DOMAIN items /\ key \notin gone
               THEN Len(items[key].value) ELSE 0
    IN size - BytesUnder(evicted) - old + Len(value) <= capacity

\* C19: a Set evicts no more than the new item needs: whenever it evicts an
\* entry, the item did not fit without that eviction; so it evicts nothing
\* when the item fits already, the old value under its own key counted as
\* freed.
C19_EvictsOnlyWhatIsNeeded ==
    [][SetAccepted =>
          \A n \in 1..Len(memLast'.evicted) :
              ~FitsWithout(memLast'.key, memLast'.value,
                           SubSeq(memLast'.evicted, 1, n - 1))]_vars

\* the step is a call of Set
SetCalled == memLast'.op = "set" /\ now' = now

\* C20: Set stores the value exactly when its size exceeds neither the
\* per-item limit nor the capacity: then the cache holds the value under the
\* key; otherwise the call changes nothing: the tracked size, the key list
\* and every entry, an earlier one under the same key included, stay as they
\* were.
C20_SetStoresExactlyWithinLimits ==
    [][SetCalled =>
          LET key == memLast'.key
              value == memLast'.value
          IN IF Len(value) <= maxItemSize /\ Len(value) <= capacity
             THEN /\ key \in DOMAIN items'
                  /\ items'[key].value = value
             ELSE /\ size' = size
                  /\ keys' = keys
                  /\ items' = items]_vars

\* a step of Get: the clock stands still and the last operation is a Get
GetCalled == memLast'.op = "get" /\ now' = now

\* C21: Get(key) returns (value, true) exactly when an entry is stored under
\* the key and its expiry is not before the current time; the value is that of
\* the latest accepted Set for the key (an entry's value appears or changes
\* only in a Set of that key with that value); otherwise Get returns
\* (nil, false), and an expired entry is not returned although the cache
\* still tracks it
C21_GetReturnsLiveEntry ==
    [][/\ GetCalled =>
           LET key == memLast'.key
               live == key \in DOMAIN items /\ ~(items[key].expiresAt < now)
           IN /\ memLast'.ok = live
              /\ live => memLast'.value = items[key].value
              /\ ~live => memLast'.value = <<>>
              /\ DOMAIN items' = DOMAIN items
              /\ keys' = keys
              /\ size' = size
       /\ \A k \in DOMAIN items' :
              (k \notin DOMAIN items \/ items'[k].value # items[k].value)
                  => /\ SetAccepted
                     /\ memLast'.key = k
                     /\ memLast'.value = items'[k].value]_vars

\* a Get has just missed an entry that expired and is still tracked
C21_Witness ==
    /\ memLast.op = "get"
    /\ ~memLast.ok
    /\ memLast.key \in DOMAIN items
    /\ items[memLast.key].expiresAt < now
    /\ \E i \in 1..Len(keys) : keys[i] = memLast.key

\* the two requests agree on method, path, normalized query string, host and
\* the value of every header the Vary list names
KeyComponentsAgree ==
    /\ keyReq[1].Method = keyReq[2].Method
    /\ keyReq[1].Path = keyReq[2].Path
    /\ QueryEncode(keyReq[1].Query) = QueryEncode(keyReq[2].Query)
    /\ keyReq[1].Host = keyReq[2].Host
    /\ \A i \in 1..Len(keyNames) :
           Get(keyReq[1].Header, keyNames[i]) = Get(keyReq[2].Header, keyNames[i])

\* C22: two requests get the same CacheKey if and only if they agree on
\* method, path, normalized query string, host and the value of every
\* Vary-listed header
C22_SameKeyIffSameComponents ==
    DOMAIN keyOf = {1, 2} => ((keyOf[1] = keyOf[2]) <=> KeyComponentsAgree)

\* C22, the half that holds: requests that agree in every component get
\* equal keys
C22_AgreeingRequestsShareKey ==
    (DOMAIN keyOf = {1, 2} /\ KeyComponentsAgree) => keyOf[1] = keyOf[2]

\* two requests that differ in path and query have got the same key
C22_FalseMerge ==
    /\ DOMAIN keyOf = {1, 2}
    /\ keyOf[1] = keyOf[2]
    /\ keyReq[1].Path # keyReq[2].Path
    /\ QueryEncode(keyReq[1].Query) # QueryEncode(keyReq[2].Query)

\* how a reader of the command stands before its i-th rune: which quote is
\* open, and whether an escaping backslash comes just before the rune
RECURSIVE Reading(_, _)
Reading(input, i) ==
    IF i = 1 THEN [quote |-> "", escaped |-> FALSE]
    ELSE LET before == Reading(input, i - 1)
             r == SubSeq(input, i - 1, i - 1)
         IN IF before.escaped THEN [before EXCEPT !.escaped = FALSE]
            ELSE IF r = "\\" /\ before.quote # "'"
            THEN [before EXCEPT !.escaped = TRUE]
            ELSE IF r \in {"'", "\""} /\ before.quote = ""
            THEN [before EXCEPT !.quote = r]
            ELSE IF r = before.quote THEN [before EXCEPT !.quote = ""]
            ELSE before

\* what the i-th rune of the command is: an escaping backslash, a quote that
\* opens or closes, whitespace that separates, or a rune of a token
Role(input, i) ==
    LET at == Reading(input, i)
        r == SubSeq(input, i, i)
    IN IF at.escaped THEN "literal"
       ELSE IF r = "\\" /\ at.quote # "'" THEN "escape"
       ELSE IF r \in {"'", "\""} /\ at.quote \in {"", r} THEN "quote"
       ELSE IF IsSpace(r) /\ at.quote = "" THEN "separator"
       ELSE "literal"

\* every quote is closed and no backslash is left without a rune to escape
WellFormed(input) ==
    LET end == Reading(input, Len(input) + 1)
    IN end.quote = "" /\ ~end.escaped

\* the runes lo..hi of the command without quotes and escaping backslashes
RECURSIVE Literals(_, _, _)
Literals(input, lo, hi) ==
    IF lo > hi THEN ""
    ELSE (IF Role(input, lo) = "literal" THEN SubSeq(input, lo, lo) ELSE "")
            \o Literals(input, lo + 1, hi)

\* the pieces between the separating whitespace from the i-th rune on, in
\* order, each without its quotes and escaping backslashes
RECURSIVE TokensFrom(_, _)
TokensFrom(input, i) ==
    IF i > Len(input) THEN <<>>
    ELSE IF Role(input, i) = "separator" THEN TokensFrom(input, i + 1)
    ELSE LET end == CHOOSE j \in i..Len(input) :
                       /\ \A k \in i..j : Role(input, k) # "separator"
                       /\ j = Len(input) \/ Role(input, j + 1) = "separator"
         IN <<Literals(input, i, end)>> \o TokensFrom(input, end + 1)

\* a call of splitCommandLine has returned for a well-formed command of the
\* generated ones
SplitReturned ==
    /\ splitRet # NoReturn
    /\ Len(command) <= MaxLen
    /\ WellFormed(command)

\* C25: splitCommandLine splits a well-formed command at unquoted, unescaped
\* whitespace only and keeps the order of the tokens: whitespace inside
\* quotes or after a backslash stays inside its token, the quotes and the
\* escaping backslashes are removed from the tokens
C25_SplitsAtWhitespaceOnly ==
    SplitReturned
        => /\ splitRet.err = ""
           /\ splitRet.parts = TokensFrom(command, 1)

\* C25 for the tokens that are not empty: they are returned, in order, and
\* nothing else is
C25_NonEmptyTokensInOrder ==
    SplitReturned
        => /\ splitRet.err = ""
           /\ splitRet.parts
                 = SelectSeq(TokensFrom(command, 1), LAMBDA token : token # "")

\* C25, the scenario of the test: four tokens, the last one without its quotes
C25_EchoHelloWorld ==
    (splitRet # NoReturn /\ command = "/usr/bin/env bash -c \"echo hello world\"")
        => splitRet = [parts |-> <<"/usr/bin/env", "bash", "-c", "echo hello world">>,
                       err |-> ""]

\* a quoted empty token of a well-formed command is missing from the result
C25_EmptyTokenLost ==
    /\ splitRet # NoReturn
    /\ command = "a ''"
    /\ TokensFrom(command, 1) = <<"a", "">>
    /\ splitRet = [parts |-> <<"a">>, err |-> ""]

\* the command has no rune that is not whitespace
OnlyWhitespace(input) ==
    \A i \in 1..Len(input) : IsSpace(SubSeq(input, i, i))

MalformedCommands == {c \in SupCommands : ~WellFormed(c)}

\* C24: a malformed command (an unterminated single or double quote, or a
\* trailing unescaped backslash) makes Start return an error before any
\* process is launched: no process handle and no done channel is registered,
\* no process exists and a step of Start leaves the stopping flag as it was
C24_MalformedCommandNeverLaunches ==
    [][(command \in MalformedCommands) =>
          /\ cmd' = 0
          /\ done' = 0
          /\ nextCmd' = 0
          /\ \A h \in Cmds : proc'[h] = "new"
          /\ \A t \in Starters :
                 startPc'[t] = "idle" /\ startRet'[t] \in {"none", "error"}
          /\ (startRet' # startRet \/ startPc' # startPc)
                 => stopping' = stopping]_vars

\* Start has returned its error for a command with an unterminated quote
C24_Witness ==
    /\ command = "/bin/echo \"unterminated"
    /\ command \in MalformedCommands
    /\ \E t \in Starters : startRet[t] = "error"
    /\ cmd = 0 /\ done = 0

\* the entries of an environment that give the variable of this name
Named(env, name) ==
    {kv \in env : Len(kv) > Len(name)
                    /\ SubSeq(kv, 1, Len(name) + 1) = name \o "="}

\* the names of the parent's variables, and the value the parent gives a name
\* (its last entry for it)
ParentNames ==
    {SubSeq(environ[i], 1, IndexOfEquals(environ[i]) - 1) :
        i \in {j \in 1..Len(environ) : IndexOfEquals(environ[j]) # 0}}

ParentEntry(name) ==
    LET places == {i \in 1..Len(environ) : Named({environ[i]}, name) # {}}
    IN environ[CHOOSE i \in places : \A j \in places : j <= i]

\* the supervisor exports a PORT of its own: no UNIX socket is configured and
\* the target port is positive
InjectsPort == targetBindSocket = "" /\ targetPort > 0

\* C30: the environment built for the process is the parent's environment
\* plus the configured overrides, with PORT=<target port> injected exactly
\* when no UNIX-socket binding is configured and the target port is positive;
\* with a socket binding the supervisor adds no PORT of its own
C30_ParentPlusOverridesPlusPort ==
    cmdEnv # NoEnv =>
        LET names == ParentNames \cup DOMAIN cfgEnv
                        \cup (IF InjectsPort THEN {"PORT"} ELSE {})
        IN /\ \A name \in DOMAIN cfgEnv :
                  Named(cmdEnv, name) = {name \o "=" \o cfgEnv[name]}
           /\ (InjectsPort /\ "PORT" \notin DOMAIN cfgEnv)
                  => Named(cmdEnv, "PORT") = {"PORT=" \o Itoa(targetPort)}
           /\ \A name \in ParentNames \ DOMAIN cfgEnv :
                  (name # "PORT" \/ ~InjectsPort)
                      => Named(cmdEnv, name) = {ParentEntry(name)}
           /\ cmdEnv = UNION {Named(cmdEnv, name) : name \in names}

\* the environment has been built with a socket binding and a positive port:
\* the parent's PORT is passed on as it is, none is exported
C30_Witness ==
    /\ cmdEnv # NoEnv
    /\ targetBindSocket # ""
    /\ targetPort = 3000
    /\ "PORT=8080" \in cmdEnv
    /\ "PORT=3000" \notin cmdEnv

\* the environment has been built without a socket binding: PORT is exported
\* and replaces the parent's
C30_PortInjected ==
    /\ cmdEnv # NoEnv
    /\ targetBindSocket = ""
    /\ "PORT=8080" \in {environ[i] : i \in 1..Len(environ)}
    /\ "PORT=3000" \in cmdEnv
    /\ "PORT=8080" \notin cmdEnv

\* a UNIX socket path is configured: the option names something
SocketConfigured ==
    \E i \in 1..Len(opts.UnixSocketPath) :
        ~IsSpace(SubSeq(opts.UnixSocketPath, i, i))

\* C27: the transport is chosen by priority: with a UNIX socket path
\* configured every connection dials that socket, whatever the target's
\* scheme and the h2c toggle are; otherwise, with h2c enabled and a plain
\* http target, prior-knowledge HTTP/2 is used; otherwise the standard
\* transport; response compression is disabled in every mode
C27_TransportByPriority ==
    proxy.built =>
        LET t == proxy.Transport
            h2c == opts.H2cEnabled /\ opts.TargetURL = "http"
        IN /\ t.DisableCompression
           /\ SocketConfigured
                 => /\ t.type = "http.Transport"
                    /\ t.network = "unix"
                    /\ t.address # ""
           /\ (~SocketConfigured /\ h2c)
                 => /\ t.type = "http2.Transport"
                    /\ t.AllowHTTP
                    /\ t.network = ""
           /\ (~SocketConfigured /\ ~h2c)
                 => /\ t.type = "http.Transport"
                    /\ t.network = ""

\* a proxy built with a socket path, h2c enabled and a plain http target
\* dials the socket
C27_Witness ==
    /\ proxy.built
    /\ opts.UnixSocketPath = "unix://tmp/puma.sock"
    /\ opts.H2cEnabled
    /\ opts.TargetURL = "http"
    /\ proxy.Transport.network = "unix"
    /\ proxy.Transport.address = "/tmp/puma.sock"

\* C28: on an upstream failure the error handler answers 413 when the error
\* is a request-body size violation, the error page notwithstanding;
\* otherwise 502 with the configured error page as body when the page was
\* present and readable; otherwise a bare 502; every failure gets exactly
\* one of these statuses
C28_ErrorHandlerStatus ==
    errResp.err # <<>> =>
        LET tooLarge == "*http.MaxBytesError"
                            \in {errResp.err[i] : i \in 1..Len(errResp.err)}
            page == opts.BadGatewayPage # "" /\ pageFile.exists
        IN /\ errResp.w.status \in {413, 502}
           /\ tooLarge => errResp.w.status = 413 /\ errResp.w.body = <<>>
           /\ (~tooLarge /\ page)
                 => /\ errResp.w.status = 502
                    /\ errResp.w.body = pageFile.bytes
           /\ (~tooLarge /\ ~page)
                 => /\ errResp.w.status = 502
                    /\ errResp.w.body = <<>>
                    /\ errResp.w.header = <<>>

\* a body over the limit has been answered with 413 although an error page
\* is configured and readable
C28_Witness ==
    /\ errResp.err = <<"*fmt.wrapError", "*http.MaxBytesError">>
    /\ opts.BadGatewayPage # ""
    /\ pageFile.exists /\ pageFile.bytes # <<>>
    /\ errResp.w.status = 413

\* C29: the socket path normalization maps every non-empty configured value,
\* a raw filesystem path or a value with the unix:// prefix, to an absolute
\* filesystem path (one that starts with "/")
C29_NormalizedPathIsAbsolute ==
    (proxy.built /\ opts.UnixSocketPath # "")
        => /\ Len(proxy.socketPath) > 0
           /\ SubSeq(proxy.socketPath, 1, 1) = "/"

\* C29 for the values with the unix:// prefix and for the raw paths that are
\* absolute already, blanks around them or not
C29_PrefixedOrAbsolute ==
    (/\ proxy.built
     /\ opts.UnixSocketPath \in {"/tmp/puma.sock", "unix:///tmp/puma.sock",
                                  "unix://tmp/puma.sock", " /tmp/puma.sock ",
                                  "unix://"})
        => /\ Len(proxy.socketPath) > 0
           /\ SubSeq(proxy.socketPath, 1, 1) = "/"
           /\ opts.UnixSocketPath # "unix://" => proxy.socketPath = "/tmp/puma.sock"

\* a raw path that is not absolute has been taken as it is
C29_RelativePathKept ==
    /\ proxy.built
    /\ opts.UnixSocketPath = "tmp/puma.sock"
    /\ proxy.socketPath = "tmp/puma.sock"
    /\ proxy.Transport.address = "tmp/puma.sock"

\* the wrapped handler has just made a body write on its ResponseWriter
HandlerWrote == sfLast'.op = "Write" /\ sfCalls' = sfCalls + 1

\* C23: with offload enabled, once a header write has found X-Sendfile (and
\* the named file exists), every later body write of the wrapped handler is
\* rejected with an error and leaves what the client has received as it was
C23_LaterWritesRejected ==
    [][(sendfileEnabled /\ sawMarker /\ sfFile.exists /\ HandlerWrote)
          => /\ sfLast'.err # ""
             /\ sfLast'.n = 0
             /\ sink'.body = sink.body]_vars

\* C23, the header write itself: when the first header write finds X-Sendfile
\* and the file exists, the client is sent status 200 with Content-Length
\* equal to the file's size and, for a GET, the bytes of the file; X-Sendfile
\* itself is not sent
C23_FileServedOnFirstHeaderWrite ==
    [][(/\ sendfileEnabled /\ sfFile.exists
        /\ ~headerWritten /\ ~sink.wroteHeader
        /\ ~sawMarker /\ sawMarker')
          => /\ sink'.wroteHeader /\ sink'.status = 200
             /\ "Content-Length" \in DOMAIN sink'.sent
             /\ sink'.sent["Content-Length"] = Itoa(Len(sfFile.bytes))
             /\ "X-Sendfile" \notin DOMAIN sink'.sent
             /\ sink'.body = (IF sfRequest.Method = "HEAD" THEN <<>> ELSE sfFile.bytes)
             /\ sendingFile']_vars

\* C23, the write that makes the header write: a body write that is the first
\* to write the header and finds X-Sendfile is rejected with
\* http.ErrBodyNotAllowed and none of its bytes are sent
C23_MarkingWriteRejected ==
    [][(sendfileEnabled /\ sfFile.exists /\ ~sawMarker /\ sawMarker' /\ HandlerWrote)
          => /\ sfLast'.err = "http.ErrBodyNotAllowed"
             /\ \A i \in 1..Len(sink'.body) : sink'.body[i] # HandlerBody[1]]_vars

\* the file has been served on the first header write, the handler has then
\* called WriteHeader again and its next body write has been taken without an
\* error
C23_WriteAcceptedAfterFile ==
    /\ sendfileEnabled /\ sawMarker /\ sfFile.exists
    /\ ~sendingFile
    /\ sfLast.op = "Write" /\ sfLast.err = ""
    /\ "Content-Length" \in DOMAIN sink.sent

\* the same, and the bytes of the handler have reached the client after the
\* bytes of the file
C23_HandlerBytesAfterFile ==
    /\ C23_WriteAcceptedAfterFile
    /\ sfRequest.Method = "GET"
    /\ sink.body = sfFile.bytes \o HandlerBody

\* C31: once a write has pushed the capture over its ceiling the capture is
\* marked overflowed, the flag stays set, no byte of a later write is added to
\* the buffer, and the buffer never holds more than the ceiling
C31_OverflowStopsBuffering ==
    [][/\ (capPc = "serving" /\ overflowed) => (overflowed' /\ buffer' = buffer)
       /\ (Wrapped /\ Len(buffer) + (Len(written') - Len(written)) > MaxBodySize
              /\ writes' = writes + 1) => overflowed'
       /\ Len(buffer') <= MaxBodySize]_vars

\* C31 without the bytes of later writes: the flag is set by the write that
\* does not fit, it stays set while the handler writes, and the buffer never
\* holds more than the ceiling
C31_FlagSticksAndCeilingHolds ==
    [][/\ (capPc = "serving" /\ overflowed) => overflowed'
       /\ (Wrapped /\ Len(buffer) + (Len(written') - Len(written)) > MaxBodySize
              /\ writes' = writes + 1) => overflowed'
       /\ Len(buffer') <= MaxBodySize]_vars

\* the capture has overflowed and the bytes of the write after that are in the
\* buffer
C31_BufferedAfterOverflow ==
    /\ overflowed
    /\ buffer # <<>>
    /\ buffer[Len(buffer)] = Len(written)
    /\ buffer[1] > MaxBodySize + 1

(***************************************************************************)
(* Claims about the Vary header.                                           *)
(***************************************************************************)
RECURSIVE LowerCase(_)
LowerCase(s) ==
    IF s = "" THEN ""
    ELSE ToLower(SubSeq(s, 1, 1)) \o LowerCase(SubSeq(s, 2, Len(s)))

\* the headers a Vary value names, whatever their order, letter case and
\* repetition
NamedHeaders(value) ==
    IF value = "" THEN {}
    ELSE LET names == stringsSplit(value, ",")
         IN {LowerCase(stringsTrimSpace(names[i])) : i \in 1..Len(names)}

\* the name list is in ascending order
Ascending(names) ==
    \A i \in 1..(Len(names) - 1) : ~stringLess(names[i + 1], names[i])

\* no name is in the list twice
NoRepeats(names) ==
    \A i, j \in 1..Len(names) : names[i] = names[j] => i = j

\* every name is in the canonical letter case, without blanks around it
CaseNormalized(names) ==
    \A i \in 1..Len(names) :
        /\ names[i] = CanonicalRunes(LowerCase(names[i]), TRUE)
        /\ names[i] = stringsTrimSpace(names[i])

\* C32: the name list of any Vary value is sorted, free of duplicates and
\* case-normalized, and two Vary values that name the same set of headers
\* give the same name list and the same CacheKey for the same request
C32_CanonicalNameList ==
    /\ \A i \in 1..2 :
          variants[i].set =>
              /\ Ascending(variants[i].headerNames)
              /\ NoRepeats(variants[i].headerNames)
              /\ CaseNormalized(variants[i].headerNames)
    /\ (/\ variants[1].set /\ variants[2].set
        /\ NamedHeaders(varyValue[1]) = NamedHeaders(varyValue[2]))
          => /\ variants[1].headerNames = variants[2].headerNames
             /\ (variants[1].key # "none" /\ variants[2].key # "none")
                   => variants[1].key = variants[2].key

\* C32 without the duplicates: the name list is sorted and case-normalized, it
\* names the headers of the Vary value and no others, and two Vary values that
\* name the same headers equally often give the same name list and CacheKey
C32_SortedAndCaseNormalized ==
    /\ \A i \in 1..2 :
          variants[i].set =>
              /\ Ascending(variants[i].headerNames)
              /\ CaseNormalized(variants[i].headerNames)
              /\ {LowerCase(variants[i].headerNames[k]) :
                     k \in 1..Len(variants[i].headerNames)}
                   = NamedHeaders(varyValue[i])
    /\ (/\ variants[1].set /\ variants[2].set
        /\ Compact(variants[1].headerNames) = Compact(variants[2].headerNames)
        /\ Len(variants[1].headerNames) = Len(variants[2].headerNames)
        /\ NoRepeats(variants[1].headerNames))
          => /\ variants[1].headerNames = variants[2].headerNames
             /\ (variants[1].key # "none" /\ variants[2].key # "none")
                   => variants[1].key = variants[2].key

\* a Vary value that names Accept-Encoding twice has given a list with the
\* name in it twice, and a CacheKey other than the one of the value that
\* names it once
C32_RepeatedNameKept ==
    /\ varyValue[1] = "accept-encoding,Accept-Encoding"
    /\ varyValue[2] = "Accept-Encoding"
    /\ variants[1].headerNames = <<"Accept-Encoding", "Accept-Encoding">>
    /\ variants[2].headerNames = <<"Accept-Encoding">>
    /\ variants[1].key # "none" /\ variants[2].key # "none"
    /\ variants[1].key # variants[2].key

\* a step in which goroutine g remembers the header names of the response it
\* found or captured
Remembers(g) ==
    /\ hPc[g] \in {"remember", "rememberMiss"}
    /\ hPc'[g] # hPc[g]

\* the Vary names of the response goroutine g is about to remember
NamesToRemember(g) ==
    parseVaryHeader(IF hPc[g] = "remember" THEN hResp[g].HttpHeader
                    ELSE hCr[g].HttpHeader)

\* C33: under any interleaving of requests the variant-header index maps a
\* base key only to a non-empty name list; remembering an empty list leaves
\* the base key without an entry, remembering a non-empty one stores it
C33_IndexHoldsNoEmptyList ==
    [][/\ \A k \in DOMAIN varyIndex' : Len(varyIndex'[k]) > 0
       /\ \A g \in Handlers :
             Remembers(g) =>
                 IF NamesToRemember(g) = <<>>
                 THEN BaseKey(hReq[g]) \notin DOMAIN varyIndex'
                 ELSE /\ BaseKey(hReq[g]) \in DOMAIN varyIndex'
                      /\ varyIndex'[BaseKey(hReq[g])] = NamesToRemember(g)]_vars

\* a response without Vary has been remembered for a base key that another
\* request is being served for at the same time, while the backend still holds
\* a response with Vary: the index has no entry for the key
C33_Witness ==
    \E g \in Handlers :
        /\ hPc[g] = "store"
        /\ hNames[g] = <<>>
        /\ BaseKey(hReq[g]) \notin DOMAIN varyIndex
        /\ \E k \in DOMAIN backend :
              parseVaryHeader(CacheableResponseFromBuffer(backend[k]).HttpHeader)
                  # <<>>
        /\ \E o \in Handlers \ {g} : hPc[o] # "idle"

(***************************************************************************)
(* Claims about the rounds of a lookup.                                    *)
(***************************************************************************)
\* the steps ServeHTTP has left at most, by where it is and its round
StepsLeft(g) ==
    CASE hPc[g] = "idle" -> 0
      [] hPc[g] = "store" -> 1
      [] hPc[g] = "rememberMiss" -> 2
      [] hPc[g] = "forward" -> 3
      [] hPc[g] = "lookupBase" -> IF hRound[g] = 2 THEN 4 ELSE 8
      [] hPc[g] = "lookup" -> IF hRound[g] = 2 THEN 5 ELSE 9
      [] hPc[g] = "load" -> IF hRound[g] = 2 THEN 6 ELSE 10
      [] hPc[g] = "remember" -> 7

\* a step of the request goroutine g is serving
RequestStep(g) == hPc[g] # "idle" /\ hPc'[g] # hPc[g]

\* the entry goroutine g has found does not match its request
FoundMismatch(g) ==
    /\ hPc[g] = "remember"
    /\ ~Matches(hReq[g], parseVaryHeader(hResp[g].HttpHeader),
                hResp[g].VariantHeader)

\* C34: a request makes at most two lookup rounds, the second one only after
\* the first has hit an entry whose variant does not match, and never a
\* third; a round reads the variant key and, only when that misses and is not
\* the base key, the base key once; so a request ends after at most four
\* backend reads and calls the downstream handler at most once
C34_AtMostTwoRounds ==
    [][\A g \in Handlers :
          /\ hTally'[g].reads <= 4
          /\ hTally'[g].calls <= 1
          /\ RequestStep(g) =>
                /\ StepsLeft(g)' < StepsLeft(g)
                /\ hTally'[g].reads = hTally[g].reads
                      + (IF hPc[g] \in {"lookup", "lookupBase"} THEN 1 ELSE 0)
                /\ hTally'[g].calls = hTally[g].calls
                      + (IF hPc[g] = "forward" THEN 1 ELSE 0)
                /\ (hRound[g] = 1 /\ hRound'[g] = 2) <=> FoundMismatch(g)
                /\ (hRound[g] = 2 /\ hRound'[g] # 2) => hPc'[g] = "idle"
                /\ hPc[g] = "load" =>
                      /\ hPc'[g] = "lookup"
                      /\ hKey'[g] = CacheKey(hReq[g], hNames'[g])
                /\ hPc'[g] = "lookupBase" =>
                      /\ hPc[g] = "lookup"
                      /\ hKey[g] \notin DOMAIN backend
                      /\ hKey[g] # BaseKey(hReq[g])
                /\ hPc[g] = "lookupBase" =>
                      hPc'[g] \in {"remember", "forward", "idle"}]_vars

\* a request has read the backend four times: both keys in the first round,
\* both again in the second
C34_Witness ==
    \E g \in Handlers :
        /\ hTally[g].reads = 4
        /\ hTally[g].calls = 0
        /\ hPc[g] = "idle"
        /\ out[g] # NoOut

(***************************************************************************)
(* C35: the victim of one eviction step.                                   *)
(***************************************************************************)
\* the cache as evictOldestItem finds it
MemState == CacheState(size, keys, items, <<>>)

\* what rand.Intn can return over the draws of one eviction step
Draws == [1..SampleSize -> 1..Len(keys)]

\* the entry under the key at this index has expired
ExpiredAt(index) == items[keys[index]].expiresAt < now

\* the draws the loop makes: it stops at the first expired entry it draws
Drawn(draws) ==
    {i \in 1..SampleSize : \A j \in 1..(i - 1) : ~ExpiredAt(draws[j])}

\* the sample of one eviction step: the indexes it drew
Sampled(draws) == {draws[i] : i \in Drawn(draws)}

\* one eviction step on the present cache with these draws
VictimIndex(draws) == SampleScan(MemState, draws, 1, 0, 0, now)

\* C35: an eviction step on a cache that tracks keys removes exactly one
\* tracked entry; the victim is one of the at most five sampled keys; it is an
\* expired entry when the sample holds one, and otherwise no sampled entry
\* was accessed earlier than the victim
C35_VictimFromSample ==
    Len(keys) > 0 =>
        /\ \A draws \in Draws :
              LET v == VictimIndex(draws)
                  sample == Sampled(draws)
                  after == RemoveAt(MemState, v)
              IN /\ Cardinality(sample) <= SampleSize
                 /\ v \in sample
                 /\ (\E s \in sample : ExpiredAt(s)) => ExpiredAt(v)
                 /\ (\A s \in sample : ~ExpiredAt(s)) =>
                        \A s \in sample :
                           items[keys[v]].lastAccessedAt
                              <= items[keys[s]].lastAccessedAt
                 /\ DOMAIN after.items = DOMAIN items \ {keys[v]}
                 /\ keys[v] \in DOMAIN items
                 /\ Len(after.keys) = Len(keys) - 1
                 /\ {after.keys[i] : i \in 1..Len(after.keys)}
                       = {keys[i] : i \in 1..Len(keys)} \ {keys[v]}
        /\ evictOldestItem(MemState, now)
              = {RemoveAt(MemState, VictimIndex(draws)) : draws \in Draws}

\* a Set has evicted, and the cache tracks an expired and a live entry
C35_Witness ==
    /\ memLast.op = "set"
    /\ memLast.evicted # <<>>
    /\ Len(keys) = 2
    /\ \E a, b \in 1..2 : ExpiredAt(a) /\ ~ExpiredAt(b)

(***************************************************************************)
(* C36: what is replayed matches the request.                              *)
(***************************************************************************)
\* the entry the last replay wrote was recorded for the header values of the
\* request it was written to
ReplayMatches(h) ==
    Matches(h.req, parseVaryHeader(h.entry.HttpHeader), h.entry.VariantHeader)

\* C36: the handler never replays an entry whose recorded variant header
\* values differ from the request's values of the headers named in the
\* entry's Vary, whichever key and whichever round the entry was found in
C36_ReplayMatchesRequest == lastHit # NoHit => ReplayMatches(lastHit)

\* the part that holds: a replay that follows the first lookup round matches
C36_FirstRoundReplayMatches ==
    [][\A g \in Handlers :
          (hPc[g] = "remember" /\ hPc'[g] = "idle") =>
              /\ lastHit' # NoHit
              /\ lastHit'.req = hReq[g]
              /\ ReplayMatches(lastHit')]_vars

\* a request for br was answered with the entry recorded for gzip
C36_ReplayedOtherVariant ==
    /\ lastHit # NoHit
    /\ Get(lastHit.req.Header, "Accept-Encoding") = "br"
    /\ Get(lastHit.entry.VariantHeader, "Accept-Encoding") = "gzip"
    /\ "Accept-Encoding" \in
          {parseVaryHeader(lastHit.entry.HttpHeader)[i] :
              i \in 1..Len(parseVaryHeader(lastHit.entry.HttpHeader))}

(***************************************************************************)
(* C37: the bookkeeping of the memory cache.                               *)
(***************************************************************************)
\* the sum of the lengths of the values of these entries
RECURSIVE StoredBytes(_)
StoredBytes(held) ==
    IF DOMAIN held = {} THEN 0
    ELSE LET k == CHOOSE x \in DOMAIN held : TRUE
         IN Len(held[k].value)
               + StoredBytes([x \in DOMAIN held \ {k} |-> held[x]])

\* C37: after any sequence of Set and Get calls, evictions included, size is
\* the sum of the lengths of all stored values, expired ones included, the
\* key list has no duplicates, and the key list holds exactly the keys of the
\* entry map
C37_BookkeepingConsistent ==
    /\ size = StoredBytes(items)
    /\ \A i, j \in 1..Len(keys) : keys[i] = keys[j] => i = j
    /\ {keys[i] : i \in 1..Len(keys)} = DOMAIN items
    /\ size >= 0

\* a Set that evicted has left a full cache with two keys, one of them expired
C37_Witness ==
    /\ memLast.op = "set"
    /\ memLast.ok
    /\ Len(memLast.evicted) >= 1
    /\ Len(keys) = 2
    /\ size = capacity
    /\ \E k \in DOMAIN items : items[k].expiresAt < now

(***************************************************************************)
(* C38: what a returning Stop leaves behind.                               *)
(***************************************************************************)
\* the Stop call of goroutine t returns in this step
StopReturns(t) == stopPc[t] # "idle" /\ stopPc'[t] = "idle"

\* the Start that owns handle h has still to launch its process
StillToLaunch(h) ==
    \E s \in Starters :
        /\ startCmd[s] = h
        /\ startPc[s] \in {"register", "registerUnlock", "launch"}

\* C38: a Stop called after Start was invoked and before the process has
\* exited, also while Start is still preparing or launching, leaves on its
\* return no running process and no process that Start launches afterwards:
\* when a Stop that captured the handle of a Start returns, the process of
\* that handle has exited or failed to launch
C38_StopLeavesNothingRunning ==
    [][\A t \in Stoppers :
          (StopReturns(t) /\ stopCmd[t] # 0) =>
              /\ proc'[stopCmd[t]] \in {"exited", "failed"}
              /\ ~StillToLaunch(stopCmd[t])']_vars

\* a Stop has returned nil with the handle of a process that was launched
\* afterwards and is running
C38_RunningAfterStop ==
    \E t \in Stoppers :
        /\ stopPc[t] = "idle"
        /\ stopRet[t] = "nil"
        /\ stopLog[t] = <<>>
        /\ stopCmd[t] # 0
        /\ proc[stopCmd[t]] = "running"

\* a Stop has taken the lock and found no handle while a Start is between
\* exec.Command and its registration
C38_StopMissedPreparingStart ==
    \E t \in Stoppers, s \in Starters :
        /\ stopPc[t] = "unlock"
        /\ stopCmd[t] = 0
        /\ startPc[s] = "register"

(***************************************************************************)
(* C39: what the supervisor holds between Start calls.                     *)
(***************************************************************************)
\* no Start call is in progress
NoStartInProgress == \A s \in Starters : startPc[s] = "idle"

\* the Start call of goroutine s returns in this step
StartReturns(s) == startPc[s] # "idle" /\ startPc'[s] = "idle"

\* the Start that made the done channel of handle h is still in progress
MakerInProgress(h) ==
    \E s \in Starters : startCmd[s] = h /\ startPc[s] # "idle"

\* C39: while no Start call is in progress the supervisor holds no handle and
\* no done channel; a Start that registered a handle returns only through its
\* defer, which closes the done channel first and then clears s.cmd and
\* s.done, on every return path; so the done channel a Stop captured is
\* closed once the Start that made it has returned
C39_NothingHeldBetweenStarts ==
    /\ [](NoStartInProgress => (cmd = 0 /\ done = 0))
    /\ [](\A t \in Stoppers :
             (stopDone[t] # 0 /\ ~MakerInProgress(stopDone[t]))
                 => closed[stopDone[t]])
    /\ [][\A s \in Starters :
             /\ StartReturns(s) =>
                   /\ startPc[s] = "clearUnlock"
                   /\ closed[startCmd[s]]
                   /\ cmd' = 0
                   /\ done' = 0
             /\ (startPc[s] = "clear" /\ startPc'[s] # "clear") =>
                   /\ closed[startCmd[s]]
                   /\ cmd' = 0
                   /\ done' = 0
             /\ (startPc[s] \in {"launch", "wait", "readUnlock"}
                    /\ startPc'[s] \notin {startPc[s], "wait", "readStopping"})
                   => startPc'[s] = "deferClose"]_vars

\* Start has returned and cleared the supervisor while a Stop that captured
\* its handle is still waiting on the done channel, which is closed
C39_Witness ==
    /\ NoStartInProgress
    /\ cmd = 0
    /\ done = 0
    /\ \E t \in Stoppers :
          /\ stopPc[t] \in {"select", "waitDone"}
          /\ stopDone[t] # 0
          /\ closed[stopDone[t]]
          /\ proc[stopDone[t]] = "exited"

(***************************************************************************)
(* C40: the cacheability rules come after the lookup.                      *)
(***************************************************************************)
\* the request of goroutine g carries Range or an upgrade header
RangeOrUpgrade(r) ==
    \/ Get(r.Header, "Range") # ""
    \/ Get(r.Header, "Upgrade") # ""
    \/ Get(r.Header, "Connection") = "Upgrade"

\* the read goroutine g is about to make finds an entry
ReadFinds(g) ==
    \/ hPc[g] = "lookup" /\ hKey[g] \in DOMAIN backend
    \/ hPc[g] = "lookupBase" /\ BaseKey(hReq[g]) \in DOMAIN backend

\* the read goroutine g is about to make is the last of its round and misses
LastReadMisses(g) ==
    \/ /\ hPc[g] = "lookup"
       /\ hKey[g] = BaseKey(hReq[g])
       /\ hKey[g] \notin DOMAIN backend
    \/ /\ hPc[g] = "lookupBase"
       /\ BaseKey(hReq[g]) \notin DOMAIN backend

C40_UpgradeReplayed ==
    \E g \in Handlers :
        /\ hPc[g] = "idle"
        /\ Get(hReq[g].Header, "Upgrade") = "websocket"
        /\ XCache(out[g]) = "hit"
        /\ out[g].origin = 0

====
